---------------------------- MODULE Spec2Model ----------------------------
(***************************************************************************)
(* Orientation estimation and pose matching of the camera viewfinder app.  *)
(*                                                                         *)
(* The repository holds several snapshots (variants) of one App component: *)
(*   quat      src/app/(tabs)/index.tsx   quaternion fusion, gated shutter  *)
(*   quat200   src/app/(tabs)/index.tsx:314  the same, 200 ms interval   *)
(*   heading   src/unnamed/part_002       tilt-compensated heading, gated   *)
(*   debounce  src/unnamed/part_001:1     4x4 sphere block, debounced       *)
(*   azimuth   src/unnamed/part_001:209   16-segment azimuth block          *)
(*   rns       src/unnamed/part_003       react-native-sensors matcher      *)
(*   magonly   src/unnamed/part_000       magnetometer-only heading         *)
(*                                                                         *)
(* Numbers.  JavaScript numbers are modelled in fixed point:               *)
(*   angles      in quarter degrees (qd): 1440 qd is a full turn; radians  *)
(*               and degrees are the same quantity in two units, so the    *)
(*               factor 180/PI does not appear;                            *)
(*   locations   in units of 0.00001 degree of latitude/longitude;         *)
(*   quaternion and vector components in thousandths (scale QS).           *)
(***************************************************************************)
EXTENDS Integers, Sequences, FiniteSets, TLC

VARIABLES
    variant,             \* the snapshot that runs: "quat", "quat200", "heading", "debounce"
    emitter,             \* how the platform's emitter treats a listener that
                         \* throws: "first" (the emit stops) or "all" (it goes on)
    state,               \* the component's useState values, one record
    orientationReadings, \* useRef: the quaternion smoothing window (quat)
    directionReadings,   \* useRef: the heading smoothing window (heading)
    sensorData,          \* useRef: accelerometerData and magnetometerData (rns)
    magListeners,        \* Magnetometer listeners, each with the closure it captured
    accListeners,        \* nested Accelerometer listeners, each with its magData
    gyroListeners,       \* nested Gyroscope listeners, each with its magData, accData
    debounceTimeout,     \* useRef debounceTimeoutRef: the timer last scheduled
    timers,              \* the timers that are scheduled and have not fired
    mounted,             \* the component is mounted
    magnetometerAvailable, \* environment: Magnetometer.isAvailableAsync()
    notAvailableAlerts,  \* history: 'Magnetometer not available' alerts shown
    effects,             \* setup-effect bodies suspended at an await
    calls,               \* button handlers suspended at an await
    photo,               \* how the last finished takePhoto call ended
    alert,               \* the title of the last Alert.alert
    pose,                \* environment: the device's pose, an index of Poses
    budget,              \* environment: events still allowed in this run
    pushed,              \* history: every reading pushed into the window so far
    fnIn,                \* function harness: the arguments drawn for a call
    fnOut                \* function harness: what the call returned

refVars == << orientationReadings, directionReadings, sensorData >>

listenerVars == << magListeners, accListeners, gyroListeners, debounceTimeout >>

lifecycleVars == << mounted, timers, magnetometerAvailable, notAvailableAlerts >>

appVars == << variant, emitter, lifecycleVars, state, refVars, listenerVars, effects, calls, photo,
              alert, pose, budget, pushed >>

fnVars == << fnIn, fnOut >>

vars == << appVars, fnVars >>

(***************************************************************************)
(* Arithmetic helpers (Math.abs, Math.min, Math.floor, Math.sqrt, ...).    *)
(***************************************************************************)
Abs(n) == IF n < 0 THEN -n ELSE n

Min(a, b) == IF a <= b THEN a ELSE b

Max(a, b) == IF a >= b THEN a ELSE b

\* quarter degrees in d whole degrees
Degrees(d) == 4 * d

FullTurn == Degrees(360)

HalfTurn == Degrees(180)

\* a / b rounded to the nearest integer (b > 0), halves upwards
RoundDiv(a, b) == (2 * a + b) \div (2 * b)

\* fixed-point scale of sensor values, vector and quaternion components
QS == 10^3

(***************************************************************************)
(* Math.sqrt, Math.atan2.                                                  *)
(***************************************************************************)
RECURSIVE SqrtSearch(_, _, _)
SqrtSearch(n, lo, hi) ==
    IF lo >= hi THEN lo
    ELSE LET mid == (lo + hi + 1) \div 2
         IN  IF mid * mid <= n THEN SqrtSearch(n, mid, hi)
                               ELSE SqrtSearch(n, lo, mid - 1)

\* floor of the square root of n >= 0
ISqrt(n) == SqrtSearch(n, 0, Min(n, 46340))

\* tan(k / 4 degrees) * TanScale for k = 0 .. 180, at index k + 1
TanScale == 10^5

TanTable ==
    <<
       0, 436, 873, 1309, 1746, 2182, 2619, 3055,
       3492, 3929, 4366, 4803, 5241, 5678, 6116, 6554,
       6993, 7431, 7870, 8309, 8749, 9189, 9629, 10069,
       10510, 10952, 11394, 11836, 12278, 12722, 13165, 13609,
       14054, 14499, 14945, 15391, 15838, 16286, 16734, 17183,
       17633, 18083, 18534, 18986, 19438, 19891, 20345, 20800,
       21256, 21712, 22169, 22628, 23087, 23547, 24008, 24470,
       24933, 25397, 25862, 26328, 26795, 27263, 27732, 28203,
       28675, 29147, 29621, 30097, 30573, 31051, 31530, 32010,
       32492, 32975, 33460, 33945, 34433, 34922, 35412, 35904,
       36397, 36892, 37388, 37887, 38386, 38888, 39391, 39896,
       40403, 40911, 41421, 41933, 42447, 42963, 43481, 44001,
       44523, 45047, 45573, 46101, 46631, 47163, 47698, 48234,
       48773, 49315, 49858, 50404, 50953, 51503, 52057, 52613,
       53171, 53732, 54296, 54862, 55431, 56003, 56577, 57155,
       57735, 58318, 58905, 59494, 60086, 60681, 61280, 61882,
       62487, 63095, 63707, 64322, 64941, 65563, 66189, 66818,
       67451, 68088, 68728, 69372, 70021, 70673, 71329, 71990,
       72654, 73323, 73996, 74674, 75355, 76042, 76733, 77428,
       78129, 78834, 79544, 80258, 80978, 81703, 82434, 83169,
       83910, 84656, 85408, 86166, 86929, 87698, 88473, 89253,
       90040, 90834, 91633, 92439, 93252, 94071, 94896, 95729,
       96569, 97416, 98270, 99131, 100000
    >>

\* the largest k in lo .. hi with tan(k/4 deg) <= a / b   (0 <= a <= b, b > 0)
RECURSIVE FloorSearch(_, _, _, _)
FloorSearch(a, b, lo, hi) ==
    IF lo >= hi THEN lo
    ELSE LET mid == (lo + hi + 1) \div 2
         IN  IF TanTable[mid + 1] * b <= a * TanScale
             THEN FloorSearch(a, b, mid, hi)
             ELSE FloorSearch(a, b, lo, mid - 1)

\* the smallest k in lo .. hi with tan(k/4 deg) >= a / b  (0 <= a <= b, b > 0)
RECURSIVE CeilSearch(_, _, _, _)
CeilSearch(a, b, lo, hi) ==
    IF lo >= hi THEN lo
    ELSE LET mid == (lo + hi) \div 2
         IN  IF TanTable[mid + 1] * b >= a * TanScale
             THEN CeilSearch(a, b, lo, mid)
             ELSE CeilSearch(a, b, mid + 1, hi)

\* the angle of the point (b, a) of the first quadrant (a, b >= 0, not both
\* 0), measured from the b axis, in quarter degrees: rounded down, rounded up
AtanFloor(a, b) ==
    IF a <= b THEN FloorSearch(a, b, 0, Degrees(45))
              ELSE Degrees(90) - CeilSearch(b, a, 0, Degrees(45))

AtanCeil(a, b) ==
    IF a <= b THEN CeilSearch(a, b, 0, Degrees(45))
              ELSE Degrees(90) - FloorSearch(b, a, 0, Degrees(45))

\* Math.atan2(y, x) in quarter degrees, rounded down: in -720 .. 720, with
\* atan2(0, 0) = 0 and atan2(0, x) = 180 degrees for x < 0.  Large arguments
\* are scaled down first to keep the products within 32 bits.
Atan2(y0, x0) ==
    LET f == (Max(Abs(y0), Abs(x0)) \div 16384) + 1
        y == IF f = 1 THEN y0 ELSE RoundDiv(y0, f)
        x == IF f = 1 THEN x0 ELSE RoundDiv(x0, f)
    IN  IF y = 0 /\ x = 0 THEN 0
        ELSE IF y >= 0
             THEN IF x > 0 THEN AtanFloor(y, x)
                           ELSE Degrees(90) + AtanFloor(-x, y)
             ELSE IF x >= 0 THEN -AtanCeil(-y, x)
                            ELSE -(Degrees(90) + AtanCeil(-x, -y))

(***************************************************************************)
(* Fixed-point arithmetic at scale QS, Math.sin and Math.cos.              *)
(***************************************************************************)
FxMul(a, b) == RoundDiv(a * b, QS)

\* a / b for b # 0
FxDiv(a, b) == IF b > 0 THEN RoundDiv(a * QS, b) ELSE RoundDiv(-a * QS, -b)

\* PI, PI / 2, PI / 4 and 2 PI in thousandths of a radian
PiFx == 3142

HalfPiFx == 1571

TwoPiFx == 6283

\* sine and cosine of r thousandths of a radian, |r| <= PI / 4 (Taylor)
SinSmall(r) ==
    LET r2 == FxMul(r, r)
        r3 == FxMul(r2, r)
        r5 == FxMul(r3, r2)
    IN  r - RoundDiv(r3, 6) + RoundDiv(r5, 120)

CosSmall(r) ==
    LET r2 == FxMul(r, r)
        r4 == FxMul(r2, r2)
        r6 == FxMul(r4, r2)
    IN  QS - RoundDiv(r2, 2) + RoundDiv(r4, 24) - RoundDiv(r6, 720)

\* sine and cosine of r in [0, PI / 2]
SinQuarter(r) == IF 2 * r <= HalfPiFx THEN SinSmall(r) ELSE CosSmall(HalfPiFx - r)

CosQuarter(r) == IF 2 * r <= HalfPiFx THEN CosSmall(r) ELSE SinSmall(HalfPiFx - r)

\* sine and cosine of r in [0, PI]
SinHalf(r) == IF r <= HalfPiFx THEN SinQuarter(r) ELSE SinQuarter(PiFx - r)

CosHalf(r) == IF r <= HalfPiFx THEN CosQuarter(r) ELSE -CosQuarter(PiFx - r)

\* r brought into (-PI, PI]
WrapPi(r) ==
    LET m == r % TwoPiFx
    IN  IF m > PiFx THEN m - TwoPiFx ELSE m

\* Math.sin, Math.cos of r thousandths of a radian
Sin(r) == LET w == WrapPi(r) IN IF w >= 0 THEN SinHalf(w) ELSE -SinHalf(-w)

Cos(r) == LET w == WrapPi(r) IN CosHalf(Abs(w))

\* an angle in quarter degrees, in thousandths of a radian
Radians(qd) == RoundDiv(qd * 31416, 7200)

(***************************************************************************)
(* three.js: Vector3, Matrix4.makeBasis, Quaternion, Spherical.            *)
(* A vector is << x, y, z >>, a quaternion [x, y, z, w], at scale QS.      *)
(***************************************************************************)
Quaternion(x, y, z, w) == [x |-> x, y |-> y, z |-> z, w |-> w]

\* new THREE.Quaternion()
IdentityQuaternion == Quaternion(0, 0, 0, QS)

VLength(v) == ISqrt(v[1] * v[1] + v[2] * v[2] + v[3] * v[3])

\* Vector3.normalize: divideScalar(length() || 1)
VNormalize(v) ==
    LET len == VLength(v)
    IN  IF len = 0 THEN v
        ELSE << FxDiv(v[1], len), FxDiv(v[2], len), FxDiv(v[3], len) >>

\* a.cross(b)
VCross(a, b) ==
    << FxMul(a[2], b[3]) - FxMul(a[3], b[2]),
       FxMul(a[3], b[1]) - FxMul(a[1], b[3]),
       FxMul(a[1], b[2]) - FxMul(a[2], b[1]) >>

\* Quaternion.setFromRotationMatrix of makeBasis(xAxis, yAxis, zAxis): the
\* matrix has the axes as its columns, m[row][column]
QuaternionFromBasis(xAxis, yAxis, zAxis) ==
    LET m11 == xAxis[1]  m12 == yAxis[1]  m13 == zAxis[1]
        m21 == xAxis[2]  m22 == yAxis[2]  m23 == zAxis[2]
        m31 == xAxis[3]  m32 == yAxis[3]  m33 == zAxis[3]
        trace == m11 + m22 + m33
        \* sqrt(t) in fixed point, for t in fixed point
        Root(t) == ISqrt(Max(t, 0) * QS)
    IN  IF trace > 0 THEN
            \* s = 0.5 / sqrt(trace + 1): w = 0.25 / s, x = (m32 - m23) * s
            LET r == Root(trace + QS)
            IN  Quaternion(RoundDiv((m32 - m23) * QS, 2 * r),
                           RoundDiv((m13 - m31) * QS, 2 * r),
                           RoundDiv((m21 - m12) * QS, 2 * r),
                           RoundDiv(r, 2))
        ELSE IF m11 > m22 /\ m11 > m33 THEN
            LET s == 2 * Root(QS + m11 - m22 - m33)
            IN  Quaternion(RoundDiv(s, 4), FxDiv(m12 + m21, s),
                           FxDiv(m13 + m31, s), FxDiv(m32 - m23, s))
        ELSE IF m22 > m33 THEN
            LET s == 2 * Root(QS + m22 - m11 - m33)
            IN  Quaternion(FxDiv(m12 + m21, s), RoundDiv(s, 4),
                           FxDiv(m23 + m32, s), FxDiv(m13 - m31, s))
        ELSE
            LET s == 2 * Root(QS + m33 - m11 - m22)
            IN  Quaternion(FxDiv(m13 + m31, s), FxDiv(m23 + m32, s),
                           RoundDiv(s, 4), FxDiv(m21 - m12, s))

\* Quaternion.setFromEuler(new Euler(ex, ey, ez)), order XYZ, angles in
\* thousandths of a radian
QuaternionFromEuler(ex, ey, ez) ==
    LET c1 == Cos(RoundDiv(ex, 2))  s1 == Sin(RoundDiv(ex, 2))
        c2 == Cos(RoundDiv(ey, 2))  s2 == Sin(RoundDiv(ey, 2))
        c3 == Cos(RoundDiv(ez, 2))  s3 == Sin(RoundDiv(ez, 2))
    IN  Quaternion(FxMul(FxMul(s1, c2), c3) + FxMul(FxMul(c1, s2), s3),
                   FxMul(FxMul(c1, s2), c3) - FxMul(FxMul(s1, c2), s3),
                   FxMul(FxMul(c1, c2), s3) + FxMul(FxMul(s1, s2), c3),
                   FxMul(FxMul(c1, c2), c3) - FxMul(FxMul(s1, s2), s3))

\* a.multiply(b)
QMultiply(a, b) ==
    Quaternion(
        RoundDiv(a.x * b.w + a.w * b.x + a.y * b.z - a.z * b.y, QS),
        RoundDiv(a.y * b.w + a.w * b.y + a.z * b.x - a.x * b.z, QS),
        RoundDiv(a.z * b.w + a.w * b.z + a.x * b.y - a.y * b.x, QS),
        RoundDiv(a.w * b.w - a.x * b.x - a.y * b.y - a.z * b.z, QS))

QLength(q) == ISqrt(q.x * q.x + q.y * q.y + q.z * q.z + q.w * q.w)

\* Quaternion.normalize: the identity for length 0
QNormalize(q) ==
    LET l == QLength(q)
    IN  IF l = 0 THEN IdentityQuaternion
        ELSE Quaternion(FxDiv(q.x, l), FxDiv(q.y, l), FxDiv(q.z, l), FxDiv(q.w, l))

\* a.dot(b)
QDot(a, b) == RoundDiv(a.x * b.x + a.y * b.y + a.z * b.z + a.w * b.w, QS)

\* Vector3.applyQuaternion(q)
VApplyQuaternion(v, q) ==
    LET ix == RoundDiv(q.w * v[1] + q.y * v[3] - q.z * v[2], QS)
        iy == RoundDiv(q.w * v[2] + q.z * v[1] - q.x * v[3], QS)
        iz == RoundDiv(q.w * v[3] + q.x * v[2] - q.y * v[1], QS)
        iw == RoundDiv(-q.x * v[1] - q.y * v[2] - q.z * v[3], QS)
    IN  << RoundDiv(ix * q.w - iw * q.x - iy * q.z + iz * q.y, QS),
           RoundDiv(iy * q.w - iw * q.y - iz * q.x + ix * q.z, QS),
           RoundDiv(iz * q.w - iw * q.z - ix * q.y + iy * q.x, QS) >>

\* Math.acos(c) in quarter degrees, c in [-1, 1] at scale QS
Acos(c) == Atan2(ISqrt(QS * QS - c * c), c)

\* Spherical.setFromVector3: [theta, phi] in quarter degrees
SphericalFromVector(v) ==
    LET radius == VLength(v)
    IN  IF radius = 0 THEN [theta |-> 0, phi |-> 0]
        ELSE [theta |-> Atan2(v[1], v[3]),
              phi   |-> Acos(Max(-QS, Min(QS, FxDiv(v[2], radius))))]

(***************************************************************************)
(* part_003: the pose matcher of the react-native-sensors variant.         *)
(***************************************************************************)
TOLERANCE_azimuth == Degrees(5)

TOLERANCE_pitch == Degrees(5)

TOLERANCE_roll == Degrees(5)

TOLERANCE_latitude == 10

TOLERANCE_longitude == 10

angleDifferencePlain(angle1, angle2) == Abs(angle1 - angle2)

angleDifference(angle1, angle2) ==
    LET difference == Abs(angle1 - angle2)
    IN  IF difference > HalfTurn THEN FullTurn - difference ELSE difference

compareOrientationNoRoll(current, stored) ==
    /\ angleDifference(current.azimuth, stored.azimuth) <= TOLERANCE_azimuth
    /\ Abs(current.pitch - stored.pitch) <= TOLERANCE_pitch

compareOrientation(current, stored) ==
    LET azimuthDifference == angleDifference(current.azimuth, stored.azimuth)
        pitchDifference   == Abs(current.pitch - stored.pitch)
        rollDifference    == Abs(current.roll - stored.roll)
    IN  /\ azimuthDifference <= TOLERANCE_azimuth
        /\ pitchDifference <= TOLERANCE_pitch
        /\ rollDifference <= TOLERANCE_roll

compareLocationEither(current, stored) ==
    \/ Abs(current.latitude - stored.latitude) <= TOLERANCE_latitude
    \/ Abs(current.longitude - stored.longitude) <= TOLERANCE_longitude

compareLocation(current, stored) ==
    LET latitudeDifference  == Abs(current.latitude - stored.latitude)
        longitudeDifference == Abs(current.longitude - stored.longitude)
    IN  /\ latitudeDifference <= TOLERANCE_latitude
        /\ longitudeDifference <= TOLERANCE_longitude

(***************************************************************************)
(* index.tsx / part_002: the location gate written inline in takePhoto.    *)
(***************************************************************************)
LOCATION_TOLERANCE == 10

isLocationMatchedStrict(currentCoords, savedCoords) ==
    /\ Abs(currentCoords.latitude - savedCoords.latitude) < LOCATION_TOLERANCE
    /\ Abs(currentCoords.longitude - savedCoords.longitude) < LOCATION_TOLERANCE

isLocationMatched(currentCoords, savedCoords) ==
    /\ Abs(currentCoords.latitude - savedCoords.latitude) <= LOCATION_TOLERANCE
    /\ Abs(currentCoords.longitude - savedCoords.longitude) <= LOCATION_TOLERANCE

(***************************************************************************)
(* part_001 (second snapshot): the sphere block as 16 azimuth segments.    *)
(***************************************************************************)
SPHERE_SEGMENTS_AZIMUTH == 16

calculateSphereBlockAzimuthUnnormalized(x, y, z) ==
    Atan2(y, x) \div (FullTurn \div SPHERE_SEGMENTS_AZIMUTH)

calculateSphereBlockAzimuth(x, y, z) ==
    LET theta   == Atan2(y, x)
        degrees == (theta + FullTurn) % FullTurn
    IN  degrees \div (FullTurn \div SPHERE_SEGMENTS_AZIMUTH)

(***************************************************************************)
(* part_001 (first snapshot): the sphere block as a 4 x 4 grid label.      *)
(***************************************************************************)
SPHERE_SEGMENTS_GRID == 4

\* String.fromCharCode(65 + i)
LetterOf(i) ==
    << "A", "B", "C", "D", "E", "F", "G", "H", "I", "J", "K", "L", "M",
       "N", "O", "P", "Q", "R", "S", "T", "U", "V", "W", "X", "Y", "Z" >>[i + 1]

\* the label `${horizontalLabel}${verticalLabel}`, as the pair of its parts
calculateSphereBlockGrid(x, y, z) ==
    LET theta     == Atan2(y, x)
        phi       == Atan2(z, ISqrt(x * x + y * y))
        azimuth   == (theta + FullTurn) % FullTurn
        elevation == phi + Degrees(90)
        horizontalIndex == azimuth \div (FullTurn \div SPHERE_SEGMENTS_GRID)
        verticalIndex   == elevation \div (HalfTurn \div SPHERE_SEGMENTS_GRID)
        horizontalLabel == LetterOf(horizontalIndex)
        verticalLabel   == verticalIndex + 1
    IN  << horizontalLabel, verticalLabel >>

(***************************************************************************)
(* Nullable values: null is the empty sequence, a value v is << v >>.      *)
(***************************************************************************)
None == << >>

NoResult == [fn |-> "none"]

Some(v) == << v >>

Remove(seq, i) == SubSeq(seq, 1, i - 1) \o SubSeq(seq, i + 1, Len(seq))

Range(seq) == { seq[i] : i \in DOMAIN seq }

(***************************************************************************)
(* index.tsx: the quaternion variant.  Its two snapshots differ in         *)
(* UPDATE_INTERVAL (100 ms at line 12, 200 ms at line 325) and in the      *)
(* block overlay.                                                          *)
(***************************************************************************)
ORIENTATION_TOLERANCE == 100

SMOOTHING_WINDOW_SIZE == 20

UPDATE_INTERVAL == 100

UPDATE_INTERVAL_200 == 200

SPHERE_SEGMENTS == 16

UpdateIntervalOf(v) == IF v = "quat200" THEN UPDATE_INTERVAL_200 ELSE UPDATE_INTERVAL

\* calculateDeviceOrientation, lines 95-108: the orientation of one reading
ReadingQuaternion(magData, accData, gyroData, interval) ==
    LET mx == magData[1]  my == magData[2]  mz == magData[3]
        gravity == VNormalize(accData)
        xAxis == VNormalize(<< FxMul(my, gravity[3]) - FxMul(mz, gravity[2]),
                               FxMul(mz, gravity[1]) - FxMul(mx, gravity[3]),
                               FxMul(mx, gravity[2]) - FxMul(my, gravity[1]) >>)
        yAxis == VCross(gravity, xAxis)
        quaternion == QuaternionFromBasis(xAxis, yAxis, gravity)
        gyroQuaternion ==
            QuaternionFromEuler(RoundDiv(gyroData[1] * interval, 1000),
                                RoundDiv(gyroData[2] * interval, 1000),
                                RoundDiv(gyroData[3] * interval, 1000))
    IN  QMultiply(quaternion, gyroQuaternion)

PushReadingKeepOldest(readings, reading) ==
    IF Len(readings) >= SMOOTHING_WINDOW_SIZE THEN readings
    ELSE Append(readings, reading)

PushReadingLate(readings, reading) ==
    LET pushedOn == Append(readings, reading)
    IN  IF Len(pushedOn) > SMOOTHING_WINDOW_SIZE + 1 THEN Tail(pushedOn)
        ELSE pushedOn

\* lines 110-113 (part_002 70-73): push, then shift once the window is
\* longer than SMOOTHING_WINDOW_SIZE
PushReading(readings, reading) ==
    LET pushedOn == Append(readings, reading)
    IN  IF Len(pushedOn) > SMOOTHING_WINDOW_SIZE THEN Tail(pushedOn)
        ELSE pushedOn

\* lines 115-119: the product of the window, normalized
RECURSIVE MultiplyAll(_, _)
MultiplyAll(q, readings) ==
    IF readings = << >> THEN q
    ELSE MultiplyAll(QMultiply(q, Head(readings)), Tail(readings))

SmoothedQuaternionRaw(readings) == MultiplyAll(IdentityQuaternion, readings)

SmoothedQuaternion(readings) == QNormalize(MultiplyAll(IdentityQuaternion, readings))

\* calculateSphereBlock of the quaternion variant
calculateSphereBlock(quaternion) ==
    LET forward   == VApplyQuaternion(<< 0, 0, -QS >>, quaternion)
        spherical == SphericalFromVector(forward)
        thetaIndex == (spherical.theta * SPHERE_SEGMENTS) \div (2 * HalfTurn)
        phiIndex   == (spherical.phi * SPHERE_SEGMENTS) \div HalfTurn
    IN  thetaIndex * SPHERE_SEGMENTS + phiIndex

\* takePhoto, lines 159-161
isOrientationMatched(s) ==
    /\ Abs(QS - QDot(s.currentOrientation, s.savedOrientation[1]))
           <= ORIENTATION_TOLERANCE
    /\ s.currentSphereBlock = s.savedSphereBlock[1]

(***************************************************************************)
(* part_002: the tilt-compensated-heading variant.                         *)
(***************************************************************************)
DIRECTION_TOLERANCE == 15

\* calculateTiltCompensatedDirection, lines 58-68: the heading of one
\* reading, in quarter degrees
ReadingHeading(magData, accData) ==
    LET mx == magData[1]  my == magData[2]  mz == magData[3]
        ax == accData[1]  ay == accData[2]  az == accData[3]
        pitch == Radians(Atan2(-ax, ISqrt(ay * ay + az * az)))
        roll  == Radians(Atan2(ay, az))
        xh == FxMul(mx, Cos(pitch)) + FxMul(mz, Sin(pitch))
        yh == FxMul(FxMul(mx, Sin(roll)), Sin(pitch)) + FxMul(my, Cos(roll))
                  - FxMul(FxMul(mz, Sin(roll)), Cos(pitch))
        heading == Atan2(yh, xh)
    IN  IF heading < 0 THEN heading + FullTurn ELSE heading

RECURSIVE Sum(_)
Sum(seq) == IF seq = << >> THEN 0 ELSE Head(seq) + Sum(Tail(seq))

\* lines 75-76: Math.round of the window's mean, in whole degrees
RoundedDirection(readings) == RoundDiv(Sum(readings), Degrees(1) * Len(readings))

\* takePhoto, lines 104 and 110
isDirectionMatched(s) ==
    LET directionDifference == Abs(s.currentDirection - s.savedDirection[1])
    IN  directionDifference <= DIRECTION_TOLERANCE

(***************************************************************************)
(* part_001 (first snapshot): the debounced variant's moving average.      *)
(***************************************************************************)
MOVING_AVERAGE_WINDOW == 3

\* milliseconds between two magnetometer samples, part_001 line 8
UPDATE_INTERVAL_500 == 500

\* milliseconds from a sample to the commit it schedules, part_001 line 10
DEBOUNCE_DELAY == 1000

addMagnetometerReadingKeepAll(prevReadings, reading) == Append(prevReadings, reading)

addMagnetometerReading(prevReadings, reading) ==
    LET newReadings == Append(prevReadings, reading)
    IN  IF Len(newReadings) > MOVING_AVERAGE_WINDOW
        THEN SubSeq(newReadings, Len(newReadings) - MOVING_AVERAGE_WINDOW + 1,
                    Len(newReadings))
        ELSE newReadings

RECURSIVE SumVectors(_)
SumVectors(seq) ==
    IF seq = << >> THEN << 0, 0, 0 >>
    ELSE LET rest == SumVectors(Tail(seq))
         IN  << seq[1][1] + rest[1], seq[1][2] + rest[2], seq[1][3] + rest[3] >>

\* getAverageReading over the magnetometerReadings its closure holds
getAverageReading(magnetometerReadings) ==
    IF Len(magnetometerReadings) = 0 THEN << 0, 0, 0 >>
    ELSE LET sum == SumVectors(magnetometerReadings)
             n   == Len(magnetometerReadings)
         IN  << RoundDiv(sum[1], n), RoundDiv(sum[2], n), RoundDiv(sum[3], n) >>

(***************************************************************************)
(* The environment: the poses the device is held in, the places it is at,  *)
(* and how many events a run may hold.                                     *)
(***************************************************************************)
\* sensor vectors at scale QS: flat and facing the field; flat, turned a
\* quarter and still turning; tilted
Poses ==
    << [mag |-> << 0, QS, 0 >>,     acc |-> << 0, 0, QS >>,    gyro |-> << 0, 0, 0 >>],
       [mag |-> << QS, 0, 0 >>,     acc |-> << 0, 0, QS >>,    gyro |-> << 0, 0, QS >>],
       [mag |-> << 200, 0, -400 >>, acc |-> << 0, 600, 800 >>, gyro |-> << 0, 0, 0 >>] >>

\* coordinates in units of 0.00001 degree: the scenario's reference place,
\* one within tolerance of it, one just beyond the longitude tolerance
Places ==
    { [latitude |-> 3700000, longitude |-> -12200000],
      [latitude |-> 3700005, longitude |-> -12200003],
      [latitude |-> 3700000, longitude |-> -12199989] }

MaxPushes == 2            \* readings pushed in a run with button presses

MaxOverflow == 5          \* readings pushed beyond the window's capacity

MaxPending == 1           \* samples whose nested listeners wait at once

MaxTurns == 1             \* changes of pose

MaxPresses == 2           \* button presses

MaxRequests == 1          \* camera permission requests

MaxEntries == 3           \* entries of a window of equal orientations

MaxPhotos == 3            \* takePhoto presses, react-native-sensors snapshot

WindowCapacity ==
    IF variant = "debounce" THEN MOVING_AVERAGE_WINDOW ELSE SMOOTHING_WINDOW_SIZE

\* the smoothing window of the running variant
Window ==
    CASE variant \in {"quat", "quat200"} -> orientationReadings
      [] variant = "heading"             -> directionReadings
      [] OTHER                           -> state.magnetometerReadings

(***************************************************************************)
(* The component as constructed: useState and useRef initial values.       *)
(***************************************************************************)
InitialState(v) ==
    CASE v \in {"quat", "quat200"} ->
           [permission |-> "null", cameraRef |-> FALSE, location |-> None,
            savedOrientation |-> None, savedSphereBlock |-> None,
            isLocationSet |-> FALSE,
            currentOrientation |-> IdentityQuaternion,
            currentSphereBlock |-> 0]
      [] v = "heading" ->
           [permission |-> "null", cameraRef |-> FALSE, location |-> None,
            savedDirection |-> None, isLocationSet |-> FALSE,
            currentDirection |-> 0]
      [] v = "debounce" ->
           [permission |-> "null", cameraRef |-> FALSE, location |-> None,
            currentSphereBlock |-> None, magnetometerReadings |-> << >>]
      [] v = "magonly" ->
           [permission |-> "null", cameraRef |-> FALSE, location |-> None,
            savedDirection |-> None, isLocationSet |-> FALSE,
            magnetData |-> << 0, 0, 0 >>, currentDirection |-> 0]
      [] v = "rns" ->
           [cameraPermission |-> "null", hasLocationPermission |-> None,
            location |-> None, orientation |-> None,
            storedLocation |-> None, storedOrientation |-> None]
      [] OTHER -> [permission |-> "null"]

\* the camera permission has settled: the camera view is mounted (its ref
\* callback has run) exactly when the permission is granted
WithPermission(s, p) == [s EXCEPT !.permission = p, !.cameraRef = (p = "granted")]

\* the first run of the setup effect, suspended at its first await
\* cleaned: the cleanup of this run has run (only the debounced snapshot's
\* effect has one)
NewEffect(p) == [pc |-> "location", permission |-> p, cleaned |-> FALSE]

\* the refs of the react-native-sensors snapshot, part_003 52-53
InitialSensorData == [accelerometerData |-> << 0, 0, 0 >>,
                      magnetometerData  |-> << 0, 0, 0 >>]

\* what a magnetometer listener's closure holds of the render it was made in
\* orphan: the listener belongs to an effect run whose cleanup has run
ClosureOf(s, cleaned) ==
    IF variant = "debounce"
    THEN [magnetometerReadings |-> s.magnetometerReadings, orphan |-> cleaned]
    ELSE [magnetometerReadings |-> << >>, orphan |-> cleaned]

Closure(s) == ClosureOf(s, FALSE)

\* only the heading variant has listeners that throw
Emitters == IF variant = "heading" THEN {"first", "all"} ELSE {"first"}

Mounted(v) ==
    /\ variant = v
    /\ state = InitialState(v)
    /\ orientationReadings = << >>
    /\ directionReadings = << >>
    /\ sensorData = InitialSensorData
    /\ timers = { }
    /\ mounted = TRUE
    /\ notAvailableAlerts = 0
    /\ magListeners = << >>
    /\ accListeners = << >>
    /\ gyroListeners = << >>
    /\ debounceTimeout = None
    /\ effects = << NewEffect("null") >>
    /\ calls = << >>
    /\ photo = [outcome |-> "none"]
    /\ alert = ""
    /\ pushed = << >>

\* no component runs: the function harnesses
AppIdle ==
    /\ variant = "none"
    /\ emitter = "first"
    /\ magnetometerAvailable = TRUE
    /\ state = InitialState("none")
    /\ orientationReadings = << >>
    /\ directionReadings = << >>
    /\ sensorData = InitialSensorData
    /\ timers = { }
    /\ mounted = TRUE
    /\ notAvailableAlerts = 0
    /\ magListeners = << >>
    /\ accListeners = << >>
    /\ gyroListeners = << >>
    /\ debounceTimeout = None
    /\ effects = << >>
    /\ calls = << >>
    /\ photo = [outcome |-> "none"]
    /\ alert = ""
    /\ pose = 1
    /\ budget = [pushes |-> 0, turns |-> 0, presses |-> 0, requests |-> 0,
                 pending |-> 0]
    /\ pushed = << >>

Init ==
    /\ \E v \in {"quat", "quat200", "heading"} : Mounted(v)
    /\ emitter \in Emitters
    /\ magnetometerAvailable = TRUE
    /\ pose = 1
    /\ budget = [pushes |-> MaxPushes, turns |-> MaxTurns,
                 presses |-> MaxPresses, requests |-> MaxRequests,
                 pending |-> MaxPending]
    /\ fnIn = NoResult
    /\ fnOut = NoResult

(***************************************************************************)
(* The setup effect of the gating variants (index.tsx 36-72, part_002      *)
(* 25-55).  It runs at mount and again whenever the camera permission      *)
(* object changes; the function it passes to useEffect returns nothing, so *)
(* no run has a cleanup.                                                   *)
(***************************************************************************)
Gating == variant \in {"quat", "quat200", "heading"}

\* useCameraPermissions resolves for the first time
PermissionLoaded ==
    /\ Gating
    /\ mounted
    /\ state.permission = "null"
    /\ \E p \in {"denied", "granted"} :
         /\ state' = WithPermission(state, p)
         /\ effects' = Append(effects, NewEffect(p))
    /\ UNCHANGED << variant, emitter, lifecycleVars, refVars, listenerVars, calls, photo, alert, pose,
                    budget, pushed, fnVars >>

\* the "Grant permission" button, rendered while no permission is granted
GrantPermissionPress ==
    /\ Gating
    /\ mounted
    /\ state.permission # "granted"
    /\ budget.requests > 0
    /\ \E p \in {"denied", "granted"} :
         /\ state' = WithPermission(state, p)
         /\ effects' = Append(effects, NewEffect(p))
    /\ budget' = [budget EXCEPT !.requests = @ - 1]
    /\ UNCHANGED << variant, emitter, lifecycleVars, refVars, listenerVars, calls, photo, alert, pose,
                    pushed, fnVars >>

\* Location.requestForegroundPermissionsAsync() resolves in an effect run
EffectLocationResult ==
    /\ Gating
    /\ \E i \in DOMAIN effects, status \in {"granted", "denied"} :
         LET body == effects[i]
         IN  /\ body.pc = "location"
             /\ \/ /\ status # "granted"
                   /\ alert' = "Permission to access location was denied"
                   /\ effects' = Remove(effects, i)
                   /\ UNCHANGED << magListeners, budget >>
                \/ /\ status = "granted"
                   /\ body.permission = "null"
                   /\ effects' = Remove(effects, i)
                   /\ UNCHANGED << alert, magListeners, budget >>
                \/ /\ status = "granted"
                   /\ body.permission = "denied"
                   /\ budget.requests > 0
                   /\ effects' = [effects EXCEPT ![i].pc = "request"]
                   /\ budget' = [budget EXCEPT !.requests = @ - 1]
                   /\ UNCHANGED << alert, magListeners >>
                \/ /\ status = "granted"
                   /\ body.permission = "granted"
                   /\ magListeners' = Append(magListeners, Closure(state))
                   /\ effects' = Remove(effects, i)
                   /\ UNCHANGED << alert, budget >>
    /\ UNCHANGED << variant, emitter, lifecycleVars, state, refVars, accListeners, gyroListeners,
                    debounceTimeout, calls, photo, pose, pushed, fnVars >>

\* the effect's own requestPermission() resolves: the permission object
\* changes (the effect runs again) and this run goes on to add its listener
EffectRequestResult ==
    /\ Gating
    /\ \E i \in DOMAIN effects, p \in {"denied", "granted"} :
         /\ effects[i].pc = "request"
         /\ IF mounted
            THEN /\ state' = WithPermission(state, p)
                 /\ effects' = Append(Remove(effects, i), NewEffect(p))
            ELSE /\ state' = state
                 /\ effects' = Remove(effects, i)
         /\ magListeners' = Append(magListeners, Closure(state))
    /\ UNCHANGED << variant, emitter, lifecycleVars, refVars, accListeners, gyroListeners,
                    debounceTimeout, calls, photo, alert, pose, budget, pushed,
                    fnVars >>

(***************************************************************************)
(* Sensor samples.                                                         *)
(***************************************************************************)
\* the device is moved to another pose
Turn ==
    /\ budget.turns > 0
    /\ \E p \in DOMAIN Poses \ {pose} : pose' = p
    /\ budget' = [budget EXCEPT !.turns = @ - 1]
    /\ UNCHANGED << variant, emitter, lifecycleVars, state, refVars, listenerVars, effects, calls,
                    photo, alert, pushed, fnVars >>

\* readings pushed one after the other
RECURSIVE PushAll(_, _)
PushAll(readings, new) ==
    IF new = << >> THEN readings
    ELSE PushAll(PushReading(readings, Head(new)), Tail(new))

\* a magnetometer sample in a gating variant: every magnetometer listener
\* adds an accelerometer listener that holds the sample
MagSample ==
    /\ Gating
    /\ magListeners # << >>
    /\ Len(accListeners) + Len(gyroListeners) < budget.pending
    /\ accListeners' =
           accListeners \o [i \in 1 .. Len(magListeners) |-> Poses[pose].mag]
    /\ UNCHANGED << variant, emitter, lifecycleVars, state, refVars, magListeners, gyroListeners,
                    debounceTimeout, effects, calls, photo, alert, pose,
                    budget, pushed, fnVars >>

\* the accelerometer listeners add their gyroscope listeners and stay
AccSampleQuatKept ==
    /\ variant \in {"quat", "quat200"}
    /\ accListeners # << >>
    /\ gyroListeners' =
           gyroListeners \o
           [i \in 1 .. Len(accListeners) |->
                [magData |-> accListeners[i], accData |-> Poses[pose].acc]]
    /\ UNCHANGED << variant, emitter, lifecycleVars, state, refVars, magListeners, accListeners,
                    debounceTimeout, effects, calls, photo, alert, pose, budget, pushed, fnVars >>

\* index.tsx 57-63: every accelerometer listener adds a gyroscope listener
\* and removes itself
AccSampleQuat ==
    /\ variant \in {"quat", "quat200"}
    /\ accListeners # << >>
    /\ gyroListeners' =
           gyroListeners \o
           [i \in 1 .. Len(accListeners) |->
                [magData |-> accListeners[i], accData |-> Poses[pose].acc]]
    /\ accListeners' = << >>
    /\ UNCHANGED << variant, emitter, lifecycleVars, state, refVars, magListeners, debounceTimeout,
                    effects, calls, photo, alert, pose, budget, pushed, fnVars >>

\* index.tsx 58-61 and 90-123: every gyroscope listener runs
\* calculateDeviceOrientation and removes itself
GyroSample ==
    /\ variant \in {"quat", "quat200"}
    /\ gyroListeners # << >>
    /\ budget.pushes >= Len(gyroListeners)
    /\ LET new == [i \in 1 .. Len(gyroListeners) |->
                      ReadingQuaternion(gyroListeners[i].magData,
                                        gyroListeners[i].accData,
                                        Poses[pose].gyro,
                                        UpdateIntervalOf(variant))]
           window == PushAll(orientationReadings, new)
           smoothedQuaternion == SmoothedQuaternion(window)
       IN  /\ orientationReadings' = window
           /\ state' = IF mounted
                       THEN [state EXCEPT
                               !.currentOrientation = smoothedQuaternion,
                               !.currentSphereBlock =
                                   calculateSphereBlock(smoothedQuaternion)]
                       ELSE state
           /\ pushed' = pushed \o new
           /\ budget' = [budget EXCEPT !.pushes = @ - Len(new)]
    /\ gyroListeners' = << >>
    /\ UNCHANGED << variant, emitter, lifecycleVars, directionReadings, sensorData, magListeners, accListeners,
                    debounceTimeout, effects, calls, photo, alert, pose, fnVars >>

\* part_002 45-48 and 57-78: an accelerometer listener runs
\* calculateTiltCompensatedDirection; its accData.remove() is then called on
\* the sample (the parameter shadows the subscription) and throws, so the
\* listener stays.  Whether the listeners after the first still run depends
\* on the platform's emitter.
AccSampleHeading ==
    /\ variant = "heading"
    /\ accListeners # << >>
    /\ LET n == IF emitter = "all" THEN Len(accListeners) ELSE 1
       IN
         /\ budget.pushes >= n
         /\ LET new == [i \in 1 .. n |->
                           ReadingHeading(accListeners[i], Poses[pose].acc)]
                window == PushAll(directionReadings, new)
            IN  /\ directionReadings' = window
                /\ state' = IF mounted
                            THEN [state EXCEPT
                                    !.currentDirection = RoundedDirection(window)]
                            ELSE state
                /\ pushed' = pushed \o new
                /\ budget' = [budget EXCEPT !.pushes = @ - n]
    /\ UNCHANGED << variant, emitter, lifecycleVars, orientationReadings, sensorData, listenerVars, effects, calls,
                    photo, alert, pose, fnVars >>

RECURSIVE AddAll(_, _)
AddAll(readings, new) ==
    IF new = << >> THEN readings
    ELSE AddAll(addMagnetometerReading(readings, Head(new)), Tail(new))

\* part_001 59-63: clearTimeout(debounceTimeoutRef.current), then
\* debounceTimeoutRef.current = setTimeout(...)
ScheduleCommitNoCancel(v, timer) ==
    [timers |-> v.timers \cup {timer}, ref |-> Some(timer)]

ScheduleCommit(v, timer) ==
    [timers |-> (v.timers \ Range(v.ref)) \cup {timer}, ref |-> Some(timer)]

\* the commit timer the i-th listener schedules on the sample numbered n
CommitTimer(i, n) ==
    [kind |-> "commit", sample |-> n, listener |-> i, closure |-> magListeners[i]]

\* the listeners run one after the other on one sample
RECURSIVE RunDebounceListeners(_, _, _)
RunDebounceListeners(v, i, n) ==
    IF i > Len(magListeners) THEN v
    ELSE RunDebounceListeners(ScheduleCommit(v, CommitTimer(i, n)), i + 1, n)

\* part_001 54-73: a magnetometer sample in the debounced variant: every
\* listener adds the reading, cancels the pending commit and schedules a new
\* one.  A state update of an unmounted component is dropped.
MagSampleDebounce ==
    /\ variant = "debounce"
    /\ magListeners # << >>
    /\ budget.pushes >= Len(magListeners)
    /\ LET new == [i \in 1 .. Len(magListeners) |-> Poses[pose].mag]
           after == RunDebounceListeners([timers |-> timers, ref |-> debounceTimeout],
                                         1, Len(pushed) + Len(new))
       IN  /\ state' = IF mounted
                       THEN [state EXCEPT !.magnetometerReadings = AddAll(@, new)]
                       ELSE state
           /\ pushed' = pushed \o new
           /\ budget' = [budget EXCEPT !.pushes = @ - Len(new)]
           /\ timers' = after.timers
           /\ debounceTimeout' = after.ref
    /\ UNCHANGED << variant, emitter, mounted, magnetometerAvailable,
                    notAvailableAlerts, refVars, magListeners, accListeners,
                    gyroListeners, effects, calls, photo, alert, pose, fnVars >>

\* part_001 63-72: a debounce timer fires; the ref keeps its handle
DebounceFire ==
    /\ variant = "debounce"
    /\ \E t \in timers :
         /\ t.kind = "commit"
         /\ timers' = timers \ {t}
         /\ LET avg == getAverageReading(t.closure.magnetometerReadings)
                sphereBlock == calculateSphereBlockGrid(avg[1], avg[2], avg[3])
            IN  state' = IF mounted
                         THEN [state EXCEPT !.currentSphereBlock = Some(sphereBlock)]
                         ELSE state
    /\ UNCHANGED << variant, emitter, mounted, magnetometerAvailable,
                    notAvailableAlerts, refVars, listenerVars, effects, calls,
                    photo, alert, pose, budget, pushed, fnVars >>

(***************************************************************************)
(* The setup effect of the debounced snapshot (part_001 40-100).  Its      *)
(* cleanup is the function the effect returns: it runs when the camera     *)
(* permission object changes and at unmount, whatever await the             *)
(* asynchronous body of that run is suspended at.                          *)
(***************************************************************************)
\* clearTimeout(handle): a timer is known by what scheduled it
TimerId(t) == << t.kind, t.sample, t.listener >>

ClearTimeout(ts, ref) ==
    IF ref = None THEN ts ELSE {t \in ts : TimerId(t) # TimerId(ref[1])}

\* lines 94-99: Magnetometer.removeAllListeners(), clearTimeout of the ref.
\* What the cleaned-up run left behind, or adds later, is an orphan.
EffectCleanupOf(v) ==
    [magListeners |-> << >>,
     timers  |-> {[t EXCEPT !.closure.orphan = TRUE] :
                     t \in ClearTimeout(v.timers, debounceTimeout)},
     effects |-> [i \in DOMAIN v.effects |-> [v.effects[i] EXCEPT !.cleaned = TRUE]]]

Now == [magListeners |-> magListeners, timers |-> timers, effects |-> effects]

EffectCleanup == EffectCleanupOf(Now)

\* the permission object changes while mounted: cleanup, then a new run
DebounceRerun(p) ==
    /\ state' = WithPermission(state, p)
    /\ magListeners' = EffectCleanup.magListeners
    /\ timers' = EffectCleanup.timers
    /\ effects' = Append(EffectCleanup.effects, NewEffect(p))

DebouncePermissionLoaded ==
    /\ variant = "debounce"
    /\ mounted
    /\ state.permission = "null"
    /\ \E p \in {"denied", "granted"} : DebounceRerun(p)
    /\ UNCHANGED << variant, emitter, mounted, magnetometerAvailable,
                    notAvailableAlerts, refVars, accListeners, gyroListeners,
                    debounceTimeout, calls, photo, alert, pose, budget, pushed,
                    fnVars >>

\* lines 42-46: what the body does once the location permission is known
DebounceAfterLocationAlways(status, permission) ==
    [alert |-> status # "granted",
     pc    |-> IF permission # "granted" THEN "request" ELSE "listen"]

DebounceAfterLocation(status, permission) ==
    IF status # "granted" THEN [alert |-> TRUE, pc |-> "return"]
    ELSE [alert |-> FALSE,
          pc    |-> IF permission # "granted" THEN "request" ELSE "listen"]

\* lines 52-79: the listener is added and the start timer scheduled
DebounceListen(body, v) ==
    [magListeners |-> Append(v.magListeners, ClosureOf(state, body.cleaned)),
     timers |-> v.timers \cup {[kind |-> "start", sample |-> Len(pushed),
                                listener |-> Len(v.magListeners) + 1,
                                closure |-> ClosureOf(state, body.cleaned)]},
     effects |-> v.effects]

DebounceEffectLocationResult ==
    /\ variant = "debounce"
    /\ \E i \in DOMAIN effects, status \in {"granted", "denied"} :
         LET body == effects[i]
             next == DebounceAfterLocation(status, body.permission)
         IN  /\ body.pc = "location"
             /\ alert' = IF next.alert
                         THEN "Permission to access location was denied"
                         ELSE alert
             /\ \/ /\ next.pc = "return"
                   /\ effects' = Remove(effects, i)
                   /\ UNCHANGED << magListeners, timers, budget >>
                \/ /\ next.pc = "request"
                   /\ budget.requests > 0
                   /\ effects' = [effects EXCEPT ![i].pc = "request"]
                   /\ budget' = [budget EXCEPT !.requests = @ - 1]
                   /\ UNCHANGED << magListeners, timers >>
                \/ /\ next.pc = "listen"
                   /\ LET v == DebounceListen(body, Now)
                      IN  /\ magListeners' = v.magListeners
                          /\ timers' = v.timers
                   /\ effects' = [effects EXCEPT ![i].pc = "available"]
                   /\ UNCHANGED budget
    /\ UNCHANGED << variant, emitter, mounted, magnetometerAvailable,
                    notAvailableAlerts, state, refVars, accListeners,
                    gyroListeners, debounceTimeout, calls, photo, pose, pushed,
                    fnVars >>

\* requestPermission() resolves in the body, which goes on to add its
\* listener.  While mounted the permission object changes too: the cleanup
\* and a new run come before or after the body resumes.
DebounceEffectRequestResult ==
    /\ variant = "debounce"
    /\ \E i \in DOMAIN effects, p \in {"denied", "granted"},
          first \in {"cleanup", "body"} :
         LET resumed(v) == [DebounceListen(v.effects[i], v)
                               EXCEPT !.effects[i].pc = "available"]
             after == CASE ~mounted          -> resumed(Now)
                        [] first = "cleanup" -> resumed(EffectCleanupOf(Now))
                        [] OTHER             -> EffectCleanupOf(resumed(Now))
         IN  /\ effects[i].pc = "request"
             /\ ~mounted => first = "body"
             /\ state' = IF mounted THEN WithPermission(state, p) ELSE state
             /\ magListeners' = after.magListeners
             /\ timers' = after.timers
             /\ effects' = IF mounted THEN Append(after.effects, NewEffect(p))
                           ELSE after.effects
    /\ UNCHANGED << variant, emitter, mounted, magnetometerAvailable,
                    notAvailableAlerts, refVars, accListeners, gyroListeners,
                    debounceTimeout, calls, photo, alert, pose, budget, pushed,
                    fnVars >>

\* lines 81-87: Magnetometer.isAvailableAsync() resolves
DebounceEffectAvailableResult ==
    /\ variant = "debounce"
    /\ \E i \in DOMAIN effects :
         /\ effects[i].pc = "available"
         /\ effects' = [effects EXCEPT ![i].pc = "position"]
         /\ IF magnetometerAvailable
            THEN UNCHANGED << alert, notAvailableAlerts >>
            ELSE /\ alert' = "Magnetometer not available"
                 /\ notAvailableAlerts' = notAvailableAlerts + 1
    /\ UNCHANGED << variant, emitter, mounted, timers, magnetometerAvailable,
                    state, refVars, listenerVars, calls, photo, pose, budget,
                    pushed, fnVars >>

\* lines 89-91: the initial Location.getCurrentPositionAsync() resolves
DebounceEffectPositionResult ==
    /\ variant = "debounce"
    /\ \E i \in DOMAIN effects, place \in Places :
         /\ effects[i].pc = "position"
         /\ effects' = Remove(effects, i)
         /\ state' = IF mounted THEN [state EXCEPT !.location = Some(place)]
                     ELSE state
    /\ UNCHANGED << variant, emitter, lifecycleVars, refVars, listenerVars,
                    calls, photo, alert, pose, budget, pushed, fnVars >>

\* lines 76-79: the start timer fires (Magnetometer.setUpdateInterval)
StartTimerFire ==
    /\ variant = "debounce"
    /\ \E t \in timers :
         /\ t.kind = "start"
         /\ timers' = timers \ {t}
    /\ UNCHANGED << variant, emitter, mounted, magnetometerAvailable,
                    notAvailableAlerts, state, refVars, listenerVars, effects,
                    calls, photo, alert, pose, budget, pushed, fnVars >>

(***************************************************************************)
(* The magnetometer-only snapshot (part_000): its setup effect has no      *)
(* cleanup.                                                                *)
(***************************************************************************)
\* calculateDirection, lines 46-55: the heading in quarter degrees
calculateDirection(magnetometerData) ==
    LET heading == Atan2(magnetometerData[2], magnetometerData[1])
    IN  IF heading < 0 THEN heading + FullTurn ELSE heading

MagOnlyPermissionLoaded ==
    /\ variant = "magonly"
    /\ mounted
    /\ state.permission = "null"
    /\ \E p \in {"denied", "granted"} :
         /\ state' = WithPermission(state, p)
         /\ effects' = Append(effects, NewEffect(p))
    /\ UNCHANGED << variant, emitter, lifecycleVars, refVars, listenerVars,
                    calls, photo, alert, pose, budget, pushed, fnVars >>

\* lines 20-33
MagOnlyEffectLocationResult ==
    /\ variant = "magonly"
    /\ \E i \in DOMAIN effects, status \in {"granted", "denied"} :
         LET body == effects[i]
         IN  /\ body.pc = "location"
             /\ \/ /\ status # "granted"
                   /\ alert' = "Permission to access location was denied"
                   /\ effects' = Remove(effects, i)
                   /\ UNCHANGED budget
                \/ /\ status = "granted"
                   /\ body.permission = "null"
                   /\ effects' = Remove(effects, i)
                   /\ UNCHANGED << alert, budget >>
                \/ /\ status = "granted"
                   /\ body.permission = "denied"
                   /\ budget.requests > 0
                   /\ effects' = [effects EXCEPT ![i].pc = "request"]
                   /\ budget' = [budget EXCEPT !.requests = @ - 1]
                   /\ UNCHANGED alert
                \/ /\ status = "granted"
                   /\ body.permission = "granted"
                   /\ effects' = [effects EXCEPT ![i].pc = "available"]
                   /\ UNCHANGED << alert, budget >>
    /\ UNCHANGED << variant, emitter, lifecycleVars, state, refVars,
                    listenerVars, calls, photo, pose, pushed, fnVars >>

\* lines 31-35: requestPermission() resolves in the body
MagOnlyEffectRequestResult ==
    /\ variant = "magonly"
    /\ \E i \in DOMAIN effects, p \in {"denied", "granted"} :
         /\ effects[i].pc = "request"
         /\ state' = IF mounted THEN WithPermission(state, p) ELSE state
         /\ effects' = [effects EXCEPT ![i].pc = "available"]
                       \o (IF mounted THEN << NewEffect(p) >> ELSE << >>)
    /\ UNCHANGED << variant, emitter, lifecycleVars, refVars, listenerVars,
                    calls, photo, alert, pose, budget, pushed, fnVars >>

\* lines 35-42: Magnetometer.isAvailableAsync() resolves
MagOnlyEffectAvailableResult ==
    /\ variant = "magonly"
    /\ \E i \in DOMAIN effects :
         /\ effects[i].pc = "available"
         /\ effects' = Remove(effects, i)
         /\ magListeners' = IF magnetometerAvailable
                            THEN Append(magListeners, Closure(state))
                            ELSE magListeners
    /\ UNCHANGED << variant, emitter, lifecycleVars, state, refVars,
                    accListeners, gyroListeners, debounceTimeout, calls, photo,
                    alert, pose, budget, pushed, fnVars >>

\* lines 37-40: every listener sets magnetData and runs calculateDirection
MagSampleMagOnly ==
    /\ variant = "magonly"
    /\ magListeners # << >>
    /\ budget.pushes >= Len(magListeners)
    /\ LET new == [i \in 1 .. Len(magListeners) |->
                      calculateDirection(Poses[pose].mag)]
       IN  /\ state' = IF mounted
                       THEN [state EXCEPT
                               !.magnetData = Poses[pose].mag,
                               !.currentDirection = calculateDirection(Poses[pose].mag)]
                       ELSE state
           /\ pushed' = pushed \o new
           /\ budget' = [budget EXCEPT !.pushes = @ - Len(new)]
    /\ UNCHANGED << variant, emitter, lifecycleVars, refVars, listenerVars,
                    effects, calls, photo, alert, pose, fnVars >>

(***************************************************************************)
(* The react-native-sensors snapshot (part_003).                           *)
(***************************************************************************)
\* the value JavaScript gives 0 / 0, and every computation on it
NaN == -(10^9)

NDiv(a, n) == IF a = NaN \/ n = NaN \/ n = 0 THEN NaN ELSE FxDiv(a, n)

NMul(a, b) == IF a = NaN \/ b = NaN THEN NaN ELSE FxMul(a, b)

NSub(a, b) == IF a = NaN \/ b = NaN THEN NaN ELSE a - b

NNorm(x, y, z) ==
    IF x = NaN \/ y = NaN \/ z = NaN THEN NaN ELSE ISqrt(x * x + y * y + z * z)

NAtan2(y, x) == IF y = NaN \/ x = NaN THEN NaN ELSE Atan2(y, x)

\* Math.asin(s) in quarter degrees, s at scale QS
NAsin(s) ==
    IF s = NaN \/ Abs(s) > QS THEN NaN ELSE Atan2(s, ISqrt(QS * QS - s * s))

\* getOrientation, lines 157-168: angles in quarter degrees
getOrientation(R) ==
    LET azimuth == NAtan2(R[2], R[5])
        pitch   == NAsin(IF R[8] = NaN THEN NaN ELSE -R[8])
        roll    == NAtan2(IF R[7] = NaN THEN NaN ELSE -R[7], R[9])
    IN  [azimuth |-> IF azimuth = NaN THEN NaN ELSE (azimuth + FullTurn) % FullTurn,
         pitch   |-> pitch,
         roll    |-> roll]

\* computeOrientation, lines 112-155, on the two refs
computeOrientation(data) ==
    LET ax == data.accelerometerData[1]
        ay == data.accelerometerData[2]
        az == data.accelerometerData[3]
        mx == data.magnetometerData[1]
        my == data.magnetometerData[2]
        mz == data.magnetometerData[3]
        normA  == NNorm(ax, ay, az)
        axNorm == NDiv(ax, normA)
        ayNorm == NDiv(ay, normA)
        azNorm == NDiv(az, normA)
        normM  == NNorm(mx, my, mz)
        mxNorm == NDiv(mx, normM)
        myNorm == NDiv(my, normM)
        mzNorm == NDiv(mz, normM)
        hx == NSub(NMul(myNorm, azNorm), NMul(mzNorm, ayNorm))
        hy == NSub(NMul(mzNorm, axNorm), NMul(mxNorm, azNorm))
        hz == NSub(NMul(mxNorm, ayNorm), NMul(myNorm, axNorm))
        normH  == NNorm(hx, hy, hz)
        hxNorm == NDiv(hx, normH)
        hyNorm == NDiv(hy, normH)
        hzNorm == NDiv(hz, normH)
        m21 == NSub(NMul(ayNorm, hzNorm), NMul(azNorm, hyNorm))
        m22 == NSub(NMul(azNorm, hxNorm), NMul(axNorm, hzNorm))
        m23 == NSub(NMul(axNorm, hyNorm), NMul(ayNorm, hxNorm))
    IN  getOrientation(<< hxNorm, hyNorm, hzNorm, m21, m22, m23,
                          axNorm, ayNorm, azNorm >>)

\* the dependencies of the sensor effect, line 110
RnsDeps(s) == << s.cameraPermission = "granted", s.cameraPermission = "null",
                 s.hasLocationPermission >>

RnsGranted(s) ==
    s.cameraPermission = "granted" /\ s.hasLocationPermission = Some(TRUE)

\* lines 106-109: the cleanup unsubscribes what its run subscribed
RnsEffectCleanupNone(subs) == subs

RnsEffectCleanup(subs) == [acc |-> << >>, mag |-> << >>]

\* lines 70-110: the sensor effect after a render: when a dependency has
\* changed, the cleanup of the last run, then the new run
RnsSensorEffect(old, new, subs) ==
    IF RnsDeps(old) = RnsDeps(new) THEN subs
    ELSE LET cleaned == RnsEffectCleanup(subs)
         IN  IF RnsGranted(new)
             THEN [acc |-> Append(cleaned.acc, [sensor |-> "accelerometer"]),
                   mag |-> Append(cleaned.mag, [sensor |-> "magnetometer"])]
             ELSE cleaned

\* a state update, the render and the effects that follow it
RnsSetState(new) ==
    LET subs == RnsSensorEffect(state, new,
                                [acc |-> accListeners, mag |-> magListeners])
    IN  /\ state' = new
        /\ accListeners' = subs.acc
        /\ magListeners' = subs.mag

RnsCameraPermissionLoaded ==
    /\ variant = "rns"
    /\ mounted
    /\ state.cameraPermission = "null"
    /\ \E p \in {"denied", "granted"} :
         RnsSetState([state EXCEPT !.cameraPermission = p])
    /\ UNCHANGED << variant, emitter, lifecycleVars, refVars, gyroListeners,
                    debounceTimeout, effects, calls, photo, alert, pose, budget,
                    pushed, fnVars >>

\* lines 58-64: the mount effect's location request resolves
RnsLocationPermissionResult ==
    /\ variant = "rns"
    /\ \E i \in DOMAIN effects, status \in {"granted", "denied"} :
         /\ effects[i].pc = "location"
         /\ effects' = Remove(effects, i)
         /\ IF mounted
            THEN RnsSetState([state EXCEPT
                                !.hasLocationPermission = Some(status = "granted")])
            ELSE UNCHANGED << state, accListeners, magListeners >>
         /\ alert' = IF status # "granted"
                     THEN "Permission to access location was denied"
                     ELSE alert
    /\ UNCHANGED << variant, emitter, lifecycleVars, refVars, gyroListeners,
                    debounceTimeout, calls, photo, pose, budget, pushed, fnVars >>

\* lines 282-296: the two grant buttons, shown once both permissions are
\* known and one is missing
RnsGrantPress ==
    /\ variant = "rns"
    /\ mounted
    /\ state.cameraPermission # "null"
    /\ state.hasLocationPermission # None
    /\ budget.requests > 0
    /\ budget' = [budget EXCEPT !.requests = @ - 1]
    /\ \/ /\ state.cameraPermission # "granted"
          /\ \E p \in {"denied", "granted"} :
               RnsSetState([state EXCEPT !.cameraPermission = p])
       \/ /\ state.hasLocationPermission = Some(FALSE)
          /\ \E status \in {"granted", "denied"} :
               RnsSetState([state EXCEPT
                              !.hasLocationPermission = Some(status = "granted")])
    /\ UNCHANGED << variant, emitter, lifecycleVars, refVars, gyroListeners,
                    debounceTimeout, effects, calls, photo, alert, pose, pushed,
                    fnVars >>

\* lines 84-85 and 97-98: a sample reaches a live subscription: the ref is
\* set and computeOrientation runs
RnsSample ==
    /\ variant = "rns"
    /\ budget.pushes > 0
    /\ \E sensor \in {"accelerometer", "magnetometer"} :
         LET data == IF sensor = "accelerometer"
                     THEN [sensorData EXCEPT !.accelerometerData = Poses[pose].acc]
                     ELSE [sensorData EXCEPT !.magnetometerData = Poses[pose].mag]
         IN  /\ IF sensor = "accelerometer" THEN accListeners # << >>
                ELSE magListeners # << >>
             /\ sensorData' = data
             /\ state' = IF mounted
                         THEN [state EXCEPT
                                 !.orientation = Some(computeOrientation(data))]
                         ELSE state
             /\ pushed' = Append(pushed, sensor)
    /\ budget' = [budget EXCEPT !.pushes = @ - 1]
    /\ UNCHANGED << variant, emitter, lifecycleVars, orientationReadings,
                    directionReadings, listenerVars, effects, calls, photo,
                    alert, pose, fnVars >>

\* takePhoto, lines 184-185: the press, up to the await in getCurrentLocation
RnsTakePhotoPress ==
    /\ variant = "rns"
    /\ mounted
    /\ RnsGranted(state)
    /\ budget.presses > 0
    /\ budget' = [budget EXCEPT !.presses = @ - 1]
    /\ calls' = Append(calls, [op |-> "take", pc |-> "location",
                               closure |-> state, fetched |-> None])
    /\ UNCHANGED << variant, emitter, lifecycleVars, state, refVars,
                    listenerVars, effects, photo, alert, pose, pushed, fnVars >>

\* lines 170-193: getCurrentLocation resolves (setLocation) or throws (caught
\* and logged); then the camera ref is read and takePictureAsync awaited
RnsTakePhotoLocated ==
    /\ variant = "rns"
    /\ \E i \in DOMAIN calls, fetched \in {None} \cup {Some(place) : place \in Places} :
         /\ calls[i].pc = "location"
         /\ state' = IF mounted /\ fetched # None
                     THEN [state EXCEPT !.location = fetched]
                     ELSE state
         /\ calls' = IF mounted
                     THEN [calls EXCEPT ![i].pc = "picture", ![i].fetched = fetched]
                     ELSE Remove(calls, i)
    /\ UNCHANGED << variant, emitter, lifecycleVars, refVars, listenerVars,
                    effects, photo, alert, pose, budget, pushed, fnVars >>

RnsAfterPictureOverwrite(c) ==
    [outcome |-> IF c.storedOrientation = None \/ c.storedLocation = None
                 THEN "first" ELSE "second",
     storedOrientation |-> c.orientation,
     storedLocation |-> c.location,
     orientationMatch |-> FALSE, locationMatch |-> FALSE]

\* a comparison with NaN is false, so compareOrientation (lines 238-248) is
\* false when an angle of either orientation is NaN
IsNaNOrientation(o) == NaN \in {o.azimuth, o.pitch, o.roll}

\* lines 195-220: what takePhoto does with the picture taken: it reads the
\* state of the render it was pressed in
RnsAfterPicture(c) ==
    IF c.storedOrientation = None \/ c.storedLocation = None
    THEN [outcome |-> "first",
          storedOrientation |-> c.orientation,
          storedLocation |-> c.location,
          orientationMatch |-> FALSE, locationMatch |-> FALSE]
    ELSE [outcome |-> "second",
          storedOrientation |-> c.storedOrientation,
          storedLocation |-> c.storedLocation,
          orientationMatch |-> /\ ~IsNaNOrientation(c.orientation[1])
                               /\ ~IsNaNOrientation(c.storedOrientation[1])
                               /\ compareOrientation(c.orientation[1],
                                                     c.storedOrientation[1]),
          locationMatch |-> compareLocation(c.location[1], c.storedLocation[1])]

\* lines 192-223: takePictureAsync resolves, or throws (caught and logged)
RnsTakePhotoPicture ==
    /\ variant = "rns"
    /\ \E i \in DOMAIN calls, taken \in BOOLEAN :
         LET c == calls[i].closure
             after == RnsAfterPicture(c)
         IN  /\ calls[i].pc = "picture"
             /\ calls' = Remove(calls, i)
             /\ IF taken
                THEN /\ photo' = [outcome |-> after.outcome, closure |-> c,
                                  fetched |-> calls[i].fetched,
                                  storedOrientation |-> after.storedOrientation,
                                  storedLocation |-> after.storedLocation,
                                  orientationMatch |-> after.orientationMatch,
                                  locationMatch |-> after.locationMatch]
                     /\ state' = IF mounted
                                 THEN [state EXCEPT
                                         !.storedOrientation = after.storedOrientation,
                                         !.storedLocation = after.storedLocation]
                                 ELSE state
                     /\ alert' = IF after.outcome = "first"
                                 THEN "First Photo Taken"
                                 ELSE "Second Photo Taken"
                ELSE UNCHANGED << photo, state, alert >>
    /\ UNCHANGED << variant, emitter, lifecycleVars, refVars, listenerVars,
                    effects, pose, budget, pushed, fnVars >>

(***************************************************************************)
(* Teardown.                                                               *)
(***************************************************************************)
\* the component unmounts: React runs the cleanups its effects returned.
\* The effects of the quaternion, heading and magnetometer-only snapshots
\* return none (index.tsx 36-72 and part_002 25-55 return theirs from the
\* async function inside, which React never sees).
Unmount ==
    /\ mounted
    /\ variant \in {"quat", "heading", "magonly", "debounce", "rns"}
    /\ mounted' = FALSE
    /\ CASE variant = "debounce" ->
              /\ magListeners' = EffectCleanup.magListeners
              /\ timers' = EffectCleanup.timers
              /\ effects' = EffectCleanup.effects
              /\ UNCHANGED accListeners
         [] variant = "rns" ->
              LET subs == RnsEffectCleanup([acc |-> accListeners,
                                            mag |-> magListeners])
              IN  /\ accListeners' = subs.acc
                  /\ magListeners' = subs.mag
                  /\ UNCHANGED << timers, effects >>
         [] OTHER ->
              UNCHANGED << magListeners, accListeners, timers, effects >>
    /\ UNCHANGED << variant, emitter, magnetometerAvailable, notAvailableAlerts,
                    state, refVars, gyroListeners, debounceTimeout, calls,
                    photo, alert, pose, budget, pushed, fnVars >>

(***************************************************************************)
(* The buttons of the gating variants.  A handler reads the state of the   *)
(* render it was created in: the press captures it, and the handler still  *)
(* holds it when its await resumes.                                        *)
(***************************************************************************)
\* setLocationAndOrientation / setLocationAndDirection up to its await
SetReferencePress ==
    /\ Gating
    /\ mounted
    /\ state.permission = "granted"
    /\ budget.presses > 0
    /\ calls' = Append(calls, [op |-> "set", closure |-> state])
    /\ budget' = [budget EXCEPT !.presses = @ - 1]
    /\ UNCHANGED << variant, emitter, lifecycleVars, state, refVars, listenerVars, effects, photo,
                    alert, pose, pushed, fnVars >>

\* ... and after Location.getCurrentPositionAsync() has resolved
SetReferenceLocated ==
    /\ Gating
    /\ \E i \in DOMAIN calls, place \in Places :
         LET c == calls[i].closure
         IN  /\ calls[i].op = "set"
             /\ calls' = Remove(calls, i)
             /\ IF variant = "heading"
                THEN /\ state' = [state EXCEPT
                                    !.location = Some(place),
                                    !.savedDirection = Some(c.currentDirection),
                                    !.isLocationSet = TRUE]
                     /\ alert' = "Location and Direction Set"
                ELSE /\ state' = [state EXCEPT
                                    !.location = Some(place),
                                    !.savedOrientation = Some(c.currentOrientation),
                                    !.savedSphereBlock = Some(c.currentSphereBlock),
                                    !.isLocationSet = TRUE]
                     /\ alert' = "Location and Orientation Set"
    /\ UNCHANGED << variant, emitter, lifecycleVars, refVars, listenerVars, effects, photo, pose,
                    budget, pushed, fnVars >>

\* takePhoto up to its await, or its 'Location Not Set' branch
TakePhotoPress ==
    /\ Gating
    /\ mounted
    /\ state.permission = "granted"
    /\ budget.presses > 0
    /\ budget' = [budget EXCEPT !.presses = @ - 1]
    /\ IF state.cameraRef /\ state.isLocationSet
       THEN /\ calls' = Append(calls, [op |-> "take", closure |-> state])
            /\ UNCHANGED << photo, alert >>
       ELSE /\ photo' = [outcome |-> "notSet", reasons |-> << >>,
                         closure |-> state, currentLocation |-> None]
            /\ alert' = "Location Not Set"
            /\ UNCHANGED calls
    /\ UNCHANGED << variant, emitter, lifecycleVars, state, refVars, listenerVars, effects, pose,
                    pushed, fnVars >>

\* the tag takePhoto gives a failed orientation / direction check
OrientationTag == IF variant = "heading" THEN "direction" ELSE "orientation"

\* takePhoto, the branch on the two checks: the shutter, or the reasons
TakePhotoEitherCheck(locationMatched, orientationMatched) ==
    IF locationMatched \/ orientationMatched
    THEN [outcome |-> "shutter", reasons |-> << >>]
    ELSE [outcome |-> "mismatch", reasons |-> << "location", OrientationTag >>]

TakePhotoSwappedTags(locationMatched, orientationMatched) ==
    IF locationMatched /\ orientationMatched
    THEN [outcome |-> "shutter", reasons |-> << >>]
    ELSE [outcome |-> "mismatch",
          reasons |-> (IF ~orientationMatched THEN << "location" >> ELSE << >>)
                      \o (IF ~locationMatched THEN << OrientationTag >> ELSE << >>)]

TakePhotoUnnamed(locationMatched, orientationMatched) ==
    IF locationMatched /\ orientationMatched
    THEN [outcome |-> "shutter", reasons |-> << >>]
    ELSE [outcome |-> "notSet", reasons |-> << >>]

TakePhotoDecision(locationMatched, orientationMatched) ==
    IF locationMatched /\ orientationMatched
    THEN [outcome |-> "shutter", reasons |-> << >>]
    ELSE [outcome |-> "mismatch",
          reasons |-> (IF ~locationMatched THEN << "location" >> ELSE << >>)
                      \o (IF ~orientationMatched THEN << OrientationTag >> ELSE << >>)]

\* the orientation / direction check of the running variant
OrientationCheck(c) ==
    IF variant = "heading" THEN isDirectionMatched(c) ELSE isOrientationMatched(c)

\* takePhoto after Location.getCurrentPositionAsync() has resolved: the two
\* checks, then cameraRef.takePictureAsync() or the mismatch alert
TakePhotoLocated ==
    /\ Gating
    /\ \E i \in DOMAIN calls, place \in Places :
         LET c == calls[i].closure
             decision == TakePhotoDecision(isLocationMatched(place, c.location[1]),
                                           OrientationCheck(c))
         IN  /\ calls[i].op = "take"
             /\ calls' = Remove(calls, i)
             /\ photo' = [outcome |-> decision.outcome,
                          reasons |-> decision.reasons,
                          closure |-> c, currentLocation |-> Some(place)]
             /\ alert' = IF decision.outcome = "shutter" THEN "Photo Taken"
                         ELSE "Cannot Take Photo"
    /\ UNCHANGED << variant, emitter, lifecycleVars, state, refVars, listenerVars, effects, pose,
                    budget, pushed, fnVars >>

(***************************************************************************)
(* The specifications.                                                     *)
(*   Spec        the gating variants from mount: setup effect, sensors,    *)
(*               buttons                                                   *)
(*   SpecWindow  the variants with a smoothing window, set up and          *)
(*               listening, under a long stream of sensor samples          *)
(***************************************************************************)
AccSample == AccSampleQuat \/ AccSampleHeading

Next ==
    \/ PermissionLoaded
    \/ GrantPermissionPress
    \/ EffectLocationResult
    \/ EffectRequestResult
    \/ Turn
    \/ MagSample
    \/ AccSample
    \/ GyroSample
    \/ SetReferencePress
    \/ SetReferenceLocated
    \/ TakePhotoPress
    \/ TakePhotoLocated

Spec == Init /\ [][Next]_vars

\* permission granted, the camera mounted, one magnetometer listener added
Listening(v) ==
    /\ variant = v
    /\ state = WithPermission(InitialState(v), "granted")
    /\ orientationReadings = << >>
    /\ directionReadings = << >>
    /\ sensorData = InitialSensorData
    /\ timers = { }
    /\ mounted = TRUE
    /\ notAvailableAlerts = 0
    /\ magListeners = << Closure(InitialState(v)) >>
    /\ accListeners = << >>
    /\ gyroListeners = << >>
    /\ debounceTimeout = None
    /\ effects = << >>
    /\ calls = << >>
    /\ photo = [outcome |-> "none"]
    /\ alert = ""
    /\ pushed = << >>

WindowInit ==
    /\ \E v \in {"quat", "heading", "debounce"} : Listening(v)
    /\ emitter \in Emitters
    /\ magnetometerAvailable = TRUE
    /\ pose \in DOMAIN Poses
    /\ budget = [pushes |-> WindowCapacity + MaxOverflow, turns |-> MaxTurns,
                 presses |-> 0, requests |-> 0, pending |-> MaxPending]
    /\ fnIn = NoResult
    /\ fnOut = NoResult

WindowNext ==
    \/ Turn
    \/ MagSample
    \/ AccSample
    \/ GyroSample
    \/ MagSampleDebounce
    \/ DebounceFire

SpecWindow == WindowInit /\ [][WindowNext]_vars

(***************************************************************************)
(* The debounced snapshot under a steady stream: the magnetometer delivers *)
(* a sample every UPDATE_INTERVAL milliseconds (part_001 52) until the     *)
(* stream ends, and a timer fires DEBOUNCE_DELAY milliseconds after it was *)
(* set (part_001 63-72) unless a sample has cleared it first.              *)
(***************************************************************************)
\* the time the n-th sample of the stream arrives
SampleTime(n) == n * UPDATE_INTERVAL_500

\* the time a commit timer fires if nothing clears it
DueTime(t) == SampleTime(t.sample) + DEBOUNCE_DELAY

\* no further sample will arrive
StreamEnded == budget.pushes < Len(magListeners)

\* part_001 63-72: a commit timer fires when it is due, which is before the
\* next sample of the stream or after the stream has ended
DebounceFireDue ==
    /\ DebounceFire
    /\ \A t \in timers \ timers' :
           StreamEnded \/ DueTime(t) < SampleTime(Len(pushed) + 1)

StreamInit ==
    /\ WindowInit
    /\ variant = "debounce"

StreamNext ==
    \/ Turn
    \/ MagSampleDebounce
    \/ DebounceFireDue

\* the sensor keeps delivering and a due timer fires
SpecStream ==
    /\ StreamInit
    /\ [][StreamNext]_vars
    /\ WF_vars(MagSampleDebounce)
    /\ WF_vars(DebounceFireDue)

\* the five snapshots from mount to teardown: setup effects, permission
\* changes, sensor samples, timers, the react-native-sensors shutter, unmount
LifecycleInit ==
    /\ \E v \in {"quat", "heading", "magonly", "debounce", "rns"} : Mounted(v)
    /\ emitter = "first"
    /\ magnetometerAvailable \in
           IF variant \in {"magonly", "debounce"} THEN BOOLEAN ELSE {TRUE}
    /\ pose = 1
    /\ budget = [pushes |-> MaxPushes, turns |-> 0,
                 presses |-> IF variant = "rns" THEN MaxPhotos ELSE 0,
                 requests |-> MaxRequests, pending |-> MaxPending]
    /\ fnIn = NoResult
    /\ fnOut = NoResult

LifecycleNext ==
    \/ PermissionLoaded
    \/ EffectLocationResult
    \/ EffectRequestResult
    \/ MagSample
    \/ AccSample
    \/ GyroSample
    \/ MagOnlyPermissionLoaded
    \/ MagOnlyEffectLocationResult
    \/ MagOnlyEffectRequestResult
    \/ MagOnlyEffectAvailableResult
    \/ MagSampleMagOnly
    \/ DebouncePermissionLoaded
    \/ DebounceEffectLocationResult
    \/ DebounceEffectRequestResult
    \/ DebounceEffectAvailableResult
    \/ DebounceEffectPositionResult
    \/ StartTimerFire
    \/ MagSampleDebounce
    \/ DebounceFire
    \/ RnsCameraPermissionLoaded
    \/ RnsLocationPermissionResult
    \/ RnsGrantPress
    \/ RnsSample
    \/ RnsTakePhotoPress
    \/ RnsTakePhotoLocated
    \/ RnsTakePhotoPicture
    \/ Unmount

SpecLifecycle == LifecycleInit /\ [][LifecycleNext]_vars

(***************************************************************************)
(* Matcher harness: the arguments of one call are drawn in MatchInit, the  *)
(* call is one step.                                                       *)
(***************************************************************************)

\* angles every 5 degrees, and the neighbours of the wrap and of 180
MaxAngleIndex == 71

AngleGrid ==
    { Degrees(5) * k : k \in 0 .. MaxAngleIndex }
    \cup { 1, HalfTurn - 1, HalfTurn + 1, FullTurn - 1 }

\* reference poses: the matcher scenario's reference, and one next to the wrap
ScenarioStored ==
    [latitude |-> 3700000, longitude |-> -12200000,
     azimuth |-> Degrees(90), pitch |-> 0, roll |-> 0]

StoredPoses ==
    { ScenarioStored,
      [latitude |-> 0, longitude |-> 0,
       azimuth |-> Degrees(358), pitch |-> Degrees(40), roll |-> Degrees(178)] }

LatitudeOffsets == { -11, -10, 0, 5, 10, 11, 100 }

LongitudeOffsets == { -11, -10, -3, 0, 10, 11 }

AzimuthOffsets == { -21, -20, 0, 12, 20, 21, HalfTurn }

PitchOffsets == { -21, -20, 0, 20, 21 }

RollOffsets == { -21, 0, 20, 21, -Degrees(356) }

Moved(stored, dLat, dLon, dAz, dPitch, dRoll) ==
    [latitude  |-> stored.latitude + dLat,
     longitude |-> stored.longitude + dLon,
     azimuth   |-> (stored.azimuth + dAz) % FullTurn,
     pitch     |-> stored.pitch + dPitch,
     roll      |-> stored.roll + dRoll]

ScenarioCurrentNear == Moved(ScenarioStored, 5, -3, Degrees(3), 0, 0)

ScenarioCurrentFar == Moved(ScenarioStored, 100, 0, 0, 0, 0)

MatchInputs ==
    { [fn |-> "angleDifference", a |-> a, b |-> b] :
          a \in AngleGrid, b \in AngleGrid }
    \cup
    { [fn |-> f, current |-> Moved(st, dLat, dLon, dAz, dPitch, dRoll),
       stored |-> st] :
          f \in {"compare", "gate"}, st \in StoredPoses,
          dLat \in LatitudeOffsets, dLon \in LongitudeOffsets,
          dAz \in AzimuthOffsets, dPitch \in PitchOffsets,
          dRoll \in RollOffsets }

\* part_003 takePhoto, comparison path: both comparisons of one call
ApplyCompare ==
    /\ fnIn.fn = "compare"
    /\ fnOut = NoResult
    /\ fnOut' = [fn |-> "compare",
                    orientationMatch |->
                        compareOrientation(fnIn.current, fnIn.stored),
                    locationMatch |->
                        compareLocation(fnIn.current, fnIn.stored)]
    /\ UNCHANGED << fnIn, appVars >>

\* index.tsx / part_002 takePhoto: the inline location gate
ApplyGate ==
    /\ fnIn.fn = "gate"
    /\ fnOut = NoResult
    /\ fnOut' = [fn |-> "gate",
                    locationMatch |->
                        isLocationMatched(fnIn.current, fnIn.stored)]
    /\ UNCHANGED << fnIn, appVars >>

\* compareOrientation's call of angleDifference, in both argument orders
ApplyAngleDifference ==
    /\ fnIn.fn = "angleDifference"
    /\ fnOut = NoResult
    /\ fnOut' = [fn |-> "angleDifference",
                    ab |-> angleDifference(fnIn.a, fnIn.b),
                    ba |-> angleDifference(fnIn.b, fnIn.a)]
    /\ UNCHANGED << fnIn, appVars >>

MatchInit ==
    /\ AppIdle
    /\ fnIn \in MatchInputs
    /\ fnOut = NoResult

MatchNext == ApplyCompare \/ ApplyGate \/ ApplyAngleDifference

SpecMatch == MatchInit /\ [][MatchNext]_vars

(***************************************************************************)
(* C2: the location check passes exactly when the latitude difference and  *)
(* the longitude difference are each, on its own, at most the tolerance of *)
(* 0.0001 degree (10 units), in compareLocation and in the inline gate.    *)
(***************************************************************************)
WithinLocationTolerance(a, b) == (a - b) \in -10 .. 10

C2_LocationCheck ==
    fnOut.fn \in {"compare", "gate"} =>
        ( fnOut.locationMatch <=>
            ( /\ WithinLocationTolerance(fnIn.current.latitude,
                                         fnIn.stored.latitude)
              /\ WithinLocationTolerance(fnIn.current.longitude,
                                         fnIn.stored.longitude) ) )

\* a call whose latitude is within tolerance and whose longitude is not
C2_Witness ==
    /\ fnOut.fn = "compare"
    /\ fnIn.current.latitude - fnIn.stored.latitude = 10
    /\ fnIn.current.longitude - fnIn.stored.longitude = 11
    /\ ~fnOut.locationMatch

(***************************************************************************)
(* C3: for azimuths a, b in [0, 360), angleDifference(a, b) is             *)
(* min(|a-b|, 360-|a-b|); it is symmetric, lies in [0, 180], and           *)
(* angleDifference(350, 10) is 20.                                         *)
(***************************************************************************)
C3_AngleDifference ==
    fnOut.fn = "angleDifference" =>
        LET d == Abs(fnIn.a - fnIn.b)
        IN  /\ fnOut.ab = Min(d, FullTurn - d)
            /\ fnOut.ab = fnOut.ba
            /\ fnOut.ab \in 0 .. HalfTurn
            /\ (fnIn.a = Degrees(350) /\ fnIn.b = Degrees(10))
                   => fnOut.ab = Degrees(20)

C3_Witness ==
    /\ fnOut.fn = "angleDifference"
    /\ fnIn.a = Degrees(350)
    /\ fnIn.b = Degrees(10)
    /\ fnOut.ab = Degrees(20)

(***************************************************************************)
(* C4: compareOrientation is true exactly when the circular azimuth        *)
(* difference, the plain pitch difference and the plain roll difference    *)
(* are each at most 5 degrees; with compareLocation, the matcher scenario  *)
(* matches on both dimensions for the near pose and fails on location only *)
(* for the far pose.                                                       *)
(***************************************************************************)
CircularDifference(a, b) ==
    Min((a - b) % FullTurn, (b - a) % FullTurn)

C4_CompareOrientation ==
    fnOut.fn = "compare" =>
        /\ fnOut.orientationMatch <=>
             ( /\ CircularDifference(fnIn.current.azimuth,
                                     fnIn.stored.azimuth) <= Degrees(5)
               /\ (fnIn.current.pitch - fnIn.stored.pitch)
                      \in -Degrees(5) .. Degrees(5)
               /\ (fnIn.current.roll - fnIn.stored.roll)
                      \in -Degrees(5) .. Degrees(5) )
        /\ (fnIn.stored = ScenarioStored /\ fnIn.current = ScenarioCurrentNear)
               => (fnOut.orientationMatch /\ fnOut.locationMatch)
        /\ (fnIn.stored = ScenarioStored /\ fnIn.current = ScenarioCurrentFar)
               => (fnOut.orientationMatch /\ ~fnOut.locationMatch)

C4_Witness ==
    /\ fnOut.fn = "compare"
    /\ fnIn.stored = ScenarioStored
    /\ fnIn.current = ScenarioCurrentNear
    /\ fnOut.orientationMatch
    /\ fnOut.locationMatch

(***************************************************************************)
(* Sphere-block harness: a magnetometer vector is drawn in BlockInit, one  *)
(* step applies a calculateSphereBlock to it.                              *)
(***************************************************************************)
MaxCoord == 3

Coords == { QS * k : k \in -MaxCoord .. MaxCoord }

\* the grid, and vectors next to the 0/360 wrap and inside the second slice
BlockVectors ==
    { << x, y, z >> : x \in Coords, y \in Coords, z \in Coords }
    \cup { << QS, -1, 0 >>, << 12 * QS, 5 * QS, 0 >>, << 12 * QS, 5 * QS - 30, 0 >> }

BlockInputs ==
    { [fn |-> f, v |-> v] : f \in {"azimuth", "grid"}, v \in BlockVectors }

ApplyBlockAzimuth ==
    /\ fnIn.fn = "azimuth"
    /\ fnOut = NoResult
    /\ fnOut' = [fn |-> "azimuth",
                 sphereBlock |->
                     calculateSphereBlockAzimuth(fnIn.v[1], fnIn.v[2], fnIn.v[3])]
    /\ UNCHANGED << fnIn, appVars >>

ApplyBlockGrid ==
    /\ fnIn.fn = "grid"
    /\ fnOut = NoResult
    /\ fnOut' = [fn |-> "grid",
                 sphereBlock |->
                     calculateSphereBlockGrid(fnIn.v[1], fnIn.v[2], fnIn.v[3])]
    /\ UNCHANGED << fnIn, appVars >>

BlockInit ==
    /\ AppIdle
    /\ fnIn \in BlockInputs
    /\ fnOut = NoResult

BlockNext == ApplyBlockAzimuth \/ ApplyBlockGrid

SpecBlock == BlockInit /\ [][BlockNext]_vars

(***************************************************************************)
(* C6: with 16 segments, calculateSphereBlock returns floor(azimuth/22.5)  *)
(* for the heading normalized to [0, 360); the result is an integer in     *)
(* 0 .. 15; azimuth 0 gives block 0, azimuth just below 360 gives block    *)
(* 15, azimuth 22.5 gives block 1.                                         *)
(***************************************************************************)
\* the heading of the reading (x, y), normalized to [0, 360)
HeadingOf(v) ==
    LET theta == Atan2(v[2], v[1])
    IN  IF theta < 0 THEN theta + FullTurn ELSE theta

C6_AzimuthBlock ==
    fnOut.fn = "azimuth" =>
        LET azimuth == HeadingOf(fnIn.v)
        IN  /\ azimuth \in 0 .. (FullTurn - 1)
            /\ fnOut.sphereBlock \in 0 .. 15
            /\ 90 * fnOut.sphereBlock <= azimuth
            /\ azimuth < 90 * (fnOut.sphereBlock + 1)
            /\ azimuth = 0 => fnOut.sphereBlock = 0
            /\ azimuth = FullTurn - 1 => fnOut.sphereBlock = 15
            /\ azimuth = 90 => fnOut.sphereBlock = 1

\* a reading whose heading is 22.5 degrees, put in block 1
C6_Witness ==
    /\ fnOut.fn = "azimuth"
    /\ HeadingOf(fnIn.v) = 90
    /\ fnOut.sphereBlock = 1

(***************************************************************************)
(* C7: in the 4 x 4 grid, for every input vector, the straight up and down *)
(* and zero vectors included, the label is one of A..D followed by one of  *)
(* 1..4.                                                                   *)
(***************************************************************************)
C7_GridLabel ==
    fnOut.fn = "grid" =>
        /\ fnOut.sphereBlock[1] \in {"A", "B", "C", "D"}
        /\ fnOut.sphereBlock[2] \in 1 .. 4

(***************************************************************************)
(* The photo gate, under Spec.                                             *)
(***************************************************************************)
\* the two checks of a finished takePhoto call, on what the call read: the
\* state of the render it was pressed in and the position it was given
PhotoLocationMatched ==
    isLocationMatched(photo.currentLocation[1], photo.closure.location[1])

PhotoOrientationMatched == OrientationCheck(photo.closure)

\* a reference pose was set before the call was pressed
PhotoReferenceSet ==
    /\ photo.closure.isLocationSet
    /\ photo.closure.location # None
    /\ IF variant = "heading" THEN photo.closure.savedDirection # None
       ELSE /\ photo.closure.savedOrientation # None
            /\ photo.closure.savedSphereBlock # None

\* C1: takePhoto invokes the shutter only if a reference pose was set
\* earlier and, in that call, the location check and the orientation /
\* direction check against the saved reference both pass.
C1_ShutterOnlyWhenMatched ==
    photo.outcome = "shutter" =>
        /\ PhotoReferenceSet
        /\ PhotoLocationMatched
        /\ PhotoOrientationMatched

\* a shutter after sensor samples have moved the current orientation
C1_Witness ==
    /\ photo.outcome = "shutter"
    /\ pushed # << >>

\* C5: a takePhoto call made with a reference set that does not capture
\* ends in the mismatch alert; its reasons are not empty, hold 'location'
\* exactly when the location check failed and the orientation / direction
\* tag exactly when that check failed, and hold nothing else.
C5_MismatchReasons ==
    /\ (photo.outcome = "notSet" => ~photo.closure.isLocationSet)
    /\ photo.outcome = "mismatch" =>
           /\ PhotoReferenceSet
           /\ photo.reasons # << >>
           /\ "location" \in Range(photo.reasons) <=> ~PhotoLocationMatched
           /\ OrientationTag \in Range(photo.reasons) <=> ~PhotoOrientationMatched
           /\ Range(photo.reasons) \subseteq {"location", OrientationTag}

\* a call that failed on the orientation / direction check alone
C5_Witness ==
    /\ photo.outcome = "mismatch"
    /\ photo.reasons = << OrientationTag >>
    /\ PhotoLocationMatched

(***************************************************************************)
(* The exposed sphere block of the quaternion variant, under Spec.         *)
(***************************************************************************)
\* C8: in the quaternion variant, in every reachable state, the initial one
\* included, currentSphereBlock is calculateSphereBlock(currentOrientation).
C8_BlockOfCurrentOrientation ==
    variant \in {"quat", "quat200"} =>
        state.currentSphereBlock = calculateSphereBlock(state.currentOrientation)

(***************************************************************************)
(* The smoothing windows, under SpecWindow.                                *)
(***************************************************************************)
\* C9: no smoothing window is ever longer than its capacity:
\* orientationReadings 20, directionReadings 20, magnetometerReadings 3.
C9_WindowWithinCapacity ==
    /\ Len(orientationReadings) <= SMOOTHING_WINDOW_SIZE
    /\ Len(directionReadings) <= SMOOTHING_WINDOW_SIZE
    /\ variant = "debounce" =>
           Len(state.magnetometerReadings) <= MOVING_AVERAGE_WINDOW

\* a full window of the quaternion variant after more pushes than it holds
C9_Witness ==
    /\ variant = "quat"
    /\ Len(pushed) > SMOOTHING_WINDOW_SIZE
    /\ Len(orientationReadings) = SMOOTHING_WINDOW_SIZE

\* the last n elements of a sequence
LastN(seq, n) == SubSeq(seq, Len(seq) - n + 1, Len(seq))

\* C10: after k pushes into a window of capacity N the window is the
\* min(k, N) most recently pushed readings, in arrival order.
C10_WindowIsMostRecent ==
    variant \in {"quat", "heading", "debounce"} =>
        Window = LastN(pushed, Min(Len(pushed), WindowCapacity))

\* N + 5 pushes, the last evicted reading differing from the oldest kept
C10_Witness ==
    /\ variant \in {"quat", "heading", "debounce"}
    /\ Len(pushed) = WindowCapacity + 5
    /\ pushed[5] # pushed[6]
    /\ Len(Window) = WindowCapacity

(***************************************************************************)
(* Timers and teardown, under SpecLifecycle.                               *)
(***************************************************************************)
\* the sphere-block commits that are scheduled and have not fired
CommitTimers == {t \in timers : t.kind = "commit"}

\* C11: in the debounced snapshot at most one commit timer is pending, and
\* it is the one the most recent sample scheduled: a commit scheduled by an
\* earlier sample is cancelled when a later sample arrives, so it never
\* fires after it.
C11_OneCommitPending ==
    variant = "debounce" =>
        /\ Cardinality(CommitTimers) <= 1
        /\ \A t \in CommitTimers : t.sample = Len(pushed)

\* a commit pending after a second reading has cancelled the first commit
C11_Witness ==
    /\ variant = "debounce"
    /\ Len(pushed) >= 2
    /\ \E t \in CommitTimers : t.sample = Len(pushed)

\* C12: in the debounced snapshot, once the cleanup of an effect run has
\* run, no listener of that run is subscribed and no timer of that run is
\* pending, whatever await the run's body was suspended at.
C12_NothingSurvivesCleanup ==
    variant = "debounce" =>
        /\ \A i \in DOMAIN magListeners : ~magListeners[i].orphan
        /\ \A t \in timers : ~t.closure.orphan

\* C13: in the quaternion, heading and magnetometer-only snapshots, once
\* the component is torn down no sensor listener it added is subscribed.
C13_NoListenerAfterTeardown ==
    (variant \in {"quat", "heading", "magonly"} /\ ~mounted) =>
        /\ magListeners = << >>
        /\ accListeners = << >>
        /\ gyroListeners = << >>

\* C19: in the debounced snapshot 'Magnetometer not available' is shown at
\* most once, however often the setup effect is run again.
C19_NotAvailableReportedOnce ==
    variant = "debounce" => notAvailableAlerts <= 1

(***************************************************************************)
(* The react-native-sensors snapshot, under SpecLifecycle.                 *)
(***************************************************************************)
\* C14: in the react-native-sensors snapshot a sensor subscription is live
\* only while the component is mounted with both camera and location
\* permission granted, and never more than one per sensor: the cleanup of
\* an effect run unsubscribes what the run subscribed.
C14_SubscriptionsOnlyWhileGranted ==
    variant = "rns" =>
        /\ Len(accListeners) <= 1
        /\ Len(magListeners) <= 1
        /\ (accListeners # << >> \/ magListeners # << >>) =>
               (mounted /\ RnsGranted(state))

\* unmounted after both sensors were subscribed and delivering samples
C14_Witness ==
    /\ variant = "rns"
    /\ ~mounted
    /\ {"accelerometer", "magnetometer"} \subseteq Range(pushed)
    /\ accListeners = << >>
    /\ magListeners = << >>

\* C15: in the react-native-sensors snapshot the orientation state is null
\* until an accelerometer sample and a magnetometer sample have both
\* arrived, in either order.
C15_OrientationNeedsBothSensors ==
    (variant = "rns" /\ state.orientation # None) =>
        {"accelerometer", "magnetometer"} \subseteq Range(pushed)

\* C17: every orientation computeOrientation has produced has a defined
\* azimuth, pitch and roll, whatever the two sensor vectors were (zero
\* vectors and a field parallel to gravity included).
C17_OrientationNeverNaN ==
    (variant = "rns" /\ state.orientation # None) =>
        ~IsNaNOrientation(state.orientation[1])

\* C20: in the react-native-sensors snapshot, when a takePhoto made with no
\* reference stored has completed, the stored reference is the orientation
\* current at that call with the location fetched by that call, both
\* non-null, so that the next takePhoto compares.
C20_FirstPhotoStoresFetchedLocation ==
    (variant = "rns" /\ photo.outcome = "first" /\ photo.fetched # None
                     /\ photo.closure.orientation # None) =>
        /\ photo.storedOrientation = photo.closure.orientation
        /\ photo.storedLocation = photo.fetched

\* C16: in the quaternion and heading snapshots no orientation or direction
\* is saved as the reference while no sensor sample has arrived: until the
\* first computation there is no current orientation to save.
C16_NoReferenceBeforeFirstSample ==
    (Gating /\ pushed = << >>) =>
        IF variant = "heading" THEN state.savedDirection = None
        ELSE state.savedOrientation = None

(***************************************************************************)
(* Location permission denied, under SpecLifecycle.                        *)
(***************************************************************************)
\* the setup effect's location request has just been answered 'denied'
LocationDenied ==
    /\ alert # "Permission to access location was denied"
    /\ alert' = "Permission to access location was denied"

\* C18: when the location request of a setup effect is denied, the denial
\* is alerted and that effect run ends there: it adds no sensor listener,
\* schedules no timer, and leaves the orientation, direction and
\* sphere-block state as they were.
C18_DeniedLocationAddsNothing ==
    [][LocationDenied =>
          /\ Len(effects') < Len(effects)
          /\ UNCHANGED << magListeners, accListeners, gyroListeners, timers,
                          refVars >>
          /\ IF variant = "rns"
             THEN /\ state'.orientation = state.orientation
                  /\ state'.hasLocationPermission \in {None, Some(FALSE)}
             ELSE UNCHANGED state]_vars

\* the denial alerted, the run over, nothing listening
C18_Witness ==
    /\ alert = "Permission to access location was denied"
    /\ variant \in {"quat", "debounce", "rns"}
    /\ effects = << >>
    /\ magListeners = << >>
    /\ accListeners = << >>
    /\ pushed = << >>

(***************************************************************************)
(* The react-native-sensors shutter, under SpecLifecycle.                  *)
(***************************************************************************)
\* C21: in the react-native-sensors snapshot, with a reference stored, a
\* picture is captured only when the orientation and the location have been
\* compared with the reference and both match.
C21_PictureOnlyWhenMatched ==
    (variant = "rns" /\ photo.outcome = "second") =>
        (photo.orientationMatch /\ photo.locationMatch)

\* C28: in the react-native-sensors snapshot the location takePhoto compares
\* with the stored one is the location that same takePhoto call fetched.
C28_ComparesFetchedLocation ==
    (variant = "rns" /\ photo.outcome = "second" /\ photo.fetched # None) =>
        photo.closure.location = photo.fetched

\* the reference of the react-native-sensors snapshot is stored
RnsReferenceStored(s) == s.storedOrientation # None /\ s.storedLocation # None

\* C29: in the react-native-sensors snapshot, once both halves of the
\* reference are stored, no sensor sample and no takePhoto pressed from
\* then on changes either of them.
C29_StoredReferenceKept ==
    [][(/\ variant = "rns"
        /\ RnsReferenceStored(state)
        /\ \A i \in DOMAIN calls : RnsReferenceStored(calls[i].closure))
       => /\ state'.storedOrientation = state.storedOrientation
          /\ state'.storedLocation = state.storedLocation]_vars

\* a comparing takePhoto has completed and the reference is still stored
C29_Witness ==
    /\ variant = "rns"
    /\ photo.outcome = "second"
    /\ RnsReferenceStored(state)
    /\ photo.storedOrientation = state.storedOrientation
    /\ photo.storedLocation = state.storedLocation
    /\ photo.closure.location # state.storedLocation

\* C24: every azimuth computed by getOrientation (react-native-sensors
\* snapshot) and every heading computed by calculateDirection
\* (magnetometer-only snapshot) lies in [0, 360).
C24_AzimuthInRange ==
    /\ (variant = "rns" /\ state.orientation # None) =>
           state.orientation[1].azimuth \in 0 .. FullTurn - 1
    /\ (variant = "magonly") =>
           state.currentDirection \in 0 .. FullTurn - 1

(***************************************************************************)
(* The debounced commit, under SpecWindow.                                 *)
(***************************************************************************)
\* a debounce timer fires in the mounted component: a commit timer goes
\* and nothing else of the listeners, the effects or the samples moves
CommitFires ==
    /\ variant = "debounce"
    /\ mounted
    /\ CommitTimers # { }
    /\ timers' = timers \ CommitTimers
    /\ UNCHANGED << pushed, effects, magListeners >>

\* the sphere block of the mean of the readings in the window
BlockOfWindow(readings) ==
    LET avg == getAverageReading(readings)
    IN  calculateSphereBlockGrid(avg[1], avg[2], avg[3])

\* C27: in the debounced snapshot, when the debounce timer fires the block
\* it commits is calculateSphereBlock of the mean of the readings the
\* magnetometer window holds at that moment.
C27_CommitOfCurrentWindow ==
    [][CommitFires =>
          state'.currentSphereBlock =
              Some(BlockOfWindow(state.magnetometerReadings))]_vars

(***************************************************************************)
(* The orientation checks and the smoothing as functions of their inputs.  *)
(*   SpecPose  one call of the quaternion check, of the direction check,   *)
(*             of calculateDeviceOrientation, of the heading smoothing or  *)
(*             of the magnetometer-only takePhoto                          *)
(***************************************************************************)
\* part_000 takePhoto, lines 77-96: directions in quarter degrees
magOnlyTakePhoto(s, currentLocation) ==
    IF s.cameraRef /\ s.isLocationSet
    THEN LET directionDifference == Abs(s.currentDirection - s.savedDirection[1])
         IN  IF /\ currentLocation.latitude = s.location[1].latitude
                /\ currentLocation.longitude = s.location[1].longitude
                /\ directionDifference <= Degrees(2)
             THEN "Photo Taken"
             ELSE "Location or Direction Mismatch"
    ELSE "Location Not Set"

\* rotations about the vertical by 0, 10, 30 and 90 degrees, a tilt of 25
\* degrees, and the negations of two of them
PoseQuaternions ==
    { IdentityQuaternion,
      Quaternion(0, 0, 0, -QS),
      Quaternion(0, 0, 87, 996),
      Quaternion(0, 0, 259, 966),
      Quaternion(0, 0, -259, -966),
      Quaternion(0, 0, 707, 707),
      Quaternion(216, 0, 0, 976) }

\* an orientation with its sphere block, as one listener run sets them, and
\* the pair the component starts with
PoseStates ==
    { [orientation |-> q, block |-> calculateSphereBlock(q)] : q \in PoseQuaternions }
    \cup { [orientation |-> IdentityQuaternion, block |-> 0] }

\* directions in whole degrees, as the heading snapshot exports them
PoseDirections == { 0, 5, 15, 16, 180, 340, 345, 355, 359 }

\* headings of one reading, in quarter degrees
PoseHeadings == { 0, 2, Degrees(90), Degrees(359), Degrees(359) + 2, FullTurn - 1 }

\* sensor vectors, the zero vector among them
PoseVectors == { << 0, 0, 0 >>, << 0, 0, QS >>, << 0, QS, 0 >>,
                 << 0, 600, 800 >>, << 200, 0, -400 >> }

\* directions of the magnetometer-only snapshot, in quarter degrees
PoseBearings == { 0, Degrees(2), Degrees(2) + 1, Degrees(3), Degrees(5),
                  Degrees(5) + 1, Degrees(90), FullTurn - 1 }

PoseInputs ==
    { [fn |-> "orientation", current |-> c, saved |-> sv] :
          c \in PoseStates, sv \in PoseStates }
    \cup
    { [fn |-> "direction", currentDirection |-> c, savedDirection |-> sv] :
          c \in PoseDirections, sv \in PoseDirections }
    \cup
    { [fn |-> "deviceOrientation", window |-> w, mag |-> m, acc |-> a, gyro |-> g] :
          w \in { << >>, << Quaternion(0, 0, 707, 707) >>,
                  << Quaternion(0, 0, 500, 0) >> },
          m \in PoseVectors, a \in PoseVectors,
          g \in { << 0, 0, 0 >>, << 0, 0, QS >> } }
    \cup
    { [fn |-> "smoothing", window |-> w, heading |-> h] :
          w \in { << >> } \cup { << h1 >> : h1 \in PoseHeadings },
          h \in PoseHeadings }
    \cup
    { [fn |-> "constantWindow", orientation |-> q, entries |-> n] :
          q \in PoseQuaternions, n \in 1 .. MaxEntries }
    \cup
    { [fn |-> "magOnlyTakePhoto", cameraRef |-> TRUE, isLocationSet |-> set,
       location |-> Some(sv), savedDirection |-> Some(Degrees(90)),
       currentDirection |-> (Degrees(90) + d) % FullTurn, currentLocation |-> c] :
          set \in BOOLEAN, sv \in Places, c \in Places, d \in PoseBearings }

\* index.tsx takePhoto, lines 159-161
ApplyOrientationCheck ==
    /\ fnIn.fn = "orientation"
    /\ fnOut = NoResult
    /\ fnOut' = [fn |-> "orientation",
                 match |-> isOrientationMatched(
                     [currentOrientation |-> fnIn.current.orientation,
                      currentSphereBlock |-> fnIn.current.block,
                      savedOrientation |-> Some(fnIn.saved.orientation),
                      savedSphereBlock |-> Some(fnIn.saved.block)])]
    /\ UNCHANGED << fnIn, appVars >>

\* part_002 takePhoto, lines 104 and 110
ApplyDirectionCheck ==
    /\ fnIn.fn = "direction"
    /\ fnOut = NoResult
    /\ fnOut' = [fn |-> "direction",
                 match |-> isDirectionMatched(
                     [currentDirection |-> fnIn.currentDirection,
                      savedDirection |-> Some(fnIn.savedDirection)])]
    /\ UNCHANGED << fnIn, appVars >>

\* index.tsx calculateDeviceOrientation, lines 90-121
ApplyDeviceOrientation ==
    /\ fnIn.fn = "deviceOrientation"
    /\ fnOut = NoResult
    /\ LET reading == ReadingQuaternion(fnIn.mag, fnIn.acc, fnIn.gyro,
                                        UPDATE_INTERVAL)
           readings == PushReading(fnIn.window, reading)
       IN  fnOut' = [fn |-> "deviceOrientation",
                     reading |-> reading,
                     currentOrientation |-> SmoothedQuaternion(readings)]
    /\ UNCHANGED << fnIn, appVars >>

\* part_002 calculateTiltCompensatedDirection, lines 70-78
ApplySmoothing ==
    /\ fnIn.fn = "smoothing"
    /\ fnOut = NoResult
    /\ fnOut' = [fn |-> "smoothing",
                 currentDirection |->
                     RoundedDirection(PushReading(fnIn.window, fnIn.heading))]
    /\ UNCHANGED << fnIn, appVars >>

\* part_000 takePhoto, lines 77-96
ApplyMagOnlyTakePhoto ==
    /\ fnIn.fn = "magOnlyTakePhoto"
    /\ fnOut = NoResult
    /\ fnOut' = [fn |-> "magOnlyTakePhoto",
                 alert |-> magOnlyTakePhoto(fnIn, fnIn.currentLocation)]
    /\ UNCHANGED << fnIn, appVars >>

\* index.tsx calculateDeviceOrientation, lines 115-121, on a window whose
\* entries are all the same orientation
ApplyConstantWindow ==
    /\ fnIn.fn = "constantWindow"
    /\ fnOut = NoResult
    /\ fnOut' = [fn |-> "constantWindow",
                 currentOrientation |->
                     SmoothedQuaternion([i \in 1 .. fnIn.entries |->
                                            fnIn.orientation])]
    /\ UNCHANGED << fnIn, appVars >>

PoseInit ==
    /\ AppIdle
    /\ fnIn \in PoseInputs
    /\ fnOut = NoResult

PoseNext ==
    \/ ApplyOrientationCheck
    \/ ApplyDirectionCheck
    \/ ApplyDeviceOrientation
    \/ ApplySmoothing
    \/ ApplyMagOnlyTakePhoto
    \/ ApplyConstantWindow

SpecPose == PoseInit /\ [][PoseNext]_vars

\* C22: in the quaternion snapshot the orientation check passes exactly
\* when 1 - |dot(current, saved)| is at most ORIENTATION_TOLERANCE and the
\* two sphere blocks are equal; a quaternion and its negation match.
C22_OrientationCheck ==
    fnOut.fn = "orientation" =>
        ( fnOut.match <=>
            ( /\ QS - Abs(QDot(fnIn.current.orientation, fnIn.saved.orientation))
                     <= ORIENTATION_TOLERANCE
              /\ fnIn.current.block = fnIn.saved.block ) )

\* C23: the orientation calculateDeviceOrientation exports has unit norm,
\* to within one part in fifty, whatever the three sensor vectors are.
C23_UnitNorm ==
    fnOut.fn = "deviceOrientation" =>
        50 * Abs(QLength(fnOut.currentOrientation) - QS) <= QS

\* a zero accelerometer vector: the reading itself is not of unit norm
C23_Witness ==
    /\ fnOut.fn = "deviceOrientation"
    /\ fnIn.acc = << 0, 0, 0 >>
    /\ fnIn.window # << >>
    /\ 50 * Abs(QLength(fnOut.reading) - QS) > QS
    /\ 50 * Abs(QLength(fnOut.currentOrientation) - QS) <= QS

\* C25: in the heading snapshot the direction check passes exactly when the
\* circular difference between the current and the saved direction is at
\* most DIRECTION_TOLERANCE; 355 and 5 match.
C25_DirectionCheck ==
    fnOut.fn = "direction" =>
        LET d == Abs(fnIn.currentDirection - fnIn.savedDirection)
        IN  fnOut.match <=> (Min(d, 360 - d) <= DIRECTION_TOLERANCE)

\* C26: in the heading snapshot the exported direction, the rounded mean of
\* the window, lies in [0, 360) for headings in [0, 360).
C26_DirectionInRange ==
    fnOut.fn = "smoothing" => fnOut.currentDirection \in 0 .. 359

\* C30: in the magnetometer-only snapshot takePhoto captures whenever the
\* reference is set, the location is the saved one and the direction
\* differs from the saved one by at most 5 degrees.
C30_CapturesWithinFiveDegrees ==
    ( /\ fnOut.fn = "magOnlyTakePhoto"
      /\ fnIn.isLocationSet
      /\ fnIn.currentLocation = fnIn.location[1]
      /\ Abs(fnIn.currentDirection - fnIn.savedDirection[1]) <= Degrees(5) )
    => fnOut.alert = "Photo Taken"

(***************************************************************************)
(* The block overlay of the quaternion snapshot, under Spec.               *)
(***************************************************************************)
\* the ids generateBlocks gives its blocks, index.tsx 74-88
BlockIds == 0 .. (SPHERE_SEGMENTS * SPHERE_SEGMENTS) \div 2 - 1

\* C31: in the quaternion snapshot with the block overlay the current
\* sphere block is always the id of a block generateBlocks created, a
\* number in 0 .. 127.
C31_BlockIsGenerated ==
    variant = "quat" => state.currentSphereBlock \in BlockIds

\* the circular distance between two angles in quarter degrees
CircularDistance(a, b) ==
    LET d == Abs(a - b) % FullTurn
    IN  Min(d, FullTurn - d)

\* each component of one quaternion within 0.02 of the other's
QuaternionClose(a, b) ==
    /\ 50 * Abs(a.x - b.x) <= QS
    /\ 50 * Abs(a.y - b.y) <= QS
    /\ 50 * Abs(a.z - b.z) <= QS
    /\ 50 * Abs(a.w - b.w) <= QS

\* one orientation is the other, as a quaternion or as its negation, which
\* is the same rotation
SameOrientation(a, b) ==
    \/ QuaternionClose(a, b)
    \/ QuaternionClose(a, Quaternion(-b.x, -b.y, -b.z, -b.w))

\* the largest circular distance of a reading from h
Spread(readings, h) ==
    LET distances == { CircularDistance(readings[i], h) :
                           i \in 1 .. Len(readings) }
    IN  CHOOSE d \in distances : \A e \in distances : e <= d

\* C32: in the quaternion snapshot, when every entry of the smoothing
\* window is the same orientation q, the smoothed orientation is q, however
\* many entries the window holds.
C32_ConstantWindow ==
    fnOut.fn = "constantWindow" =>
        SameOrientation(fnOut.currentOrientation, fnIn.orientation)

\* C33: in the heading snapshot, when every heading in the window is within
\* d of a heading h, the smoothed direction is within d of h, allowing half
\* a degree for the rounding; distances are circular.
C33_SmoothedNearReadings ==
    fnOut.fn = "smoothing" =>
        LET readings == PushReading(fnIn.window, fnIn.heading)
        IN  \A h \in PoseHeadings :
                CircularDistance(Degrees(fnOut.currentDirection), h)
                    <= Spread(readings, h) + 2

(* The messages of takePhoto in the gating snapshots, under Spec. *)
\* the names of the checks that failed for a finished takePhoto
FailedChecks(p) ==
    (IF isLocationMatched(p.currentLocation[1], p.closure.location[1])
     THEN {} ELSE { "location" })
    \cup (IF OrientationCheck(p.closure) THEN {} ELSE { OrientationTag })

C34_NotSetReached ==
    /\ Gating
    /\ photo.outcome = "notSet"
    /\ alert = "Location Not Set"

(* The sensor listeners of the gating snapshots, under Spec. *)
\* C35: in the quaternion snapshots, however the permission changes and
\* re-runs the setup effect, at most one magnetometer listener is registered
\* at any time.
C35_OneMagnetometerListener ==
    variant \in {"quat", "quat200"} => Len(magListeners) <= 1

\* C37: in the heading snapshot the accelerometer listener a magnetometer
\* sample registers is removed when it has fired, so every step that pushes
\* a heading removes the listeners that pushed.
C37_ListenerRemovedAfterFiring ==
    [][(variant = "heading" /\ pushed' # pushed) =>
           Len(accListeners') < Len(accListeners)]_vars

\* one step of the nested join: a magnetometer sample gives every
\* magnetometer listener an accelerometer listener holding that sample; the
\* accelerometer listeners fire together, hand both samples to gyroscope
\* listeners and are removed; the gyroscope listeners fire together, call
\* calculateDeviceOrientation once each and are removed
NestedJoinStep ==
    /\ Len(accListeners') > Len(accListeners) =>
           /\ accListeners' =
                  accListeners \o
                  [i \in 1 .. Len(magListeners) |-> Poses[pose].mag]
           /\ UNCHANGED << gyroListeners, pushed >>
    /\ (accListeners' # accListeners /\ Len(accListeners') <= Len(accListeners)) =>
           /\ accListeners' = << >>
           /\ gyroListeners' =
                  gyroListeners \o
                  [i \in 1 .. Len(accListeners) |->
                       [magData |-> accListeners[i],
                        accData |-> Poses[pose].acc]]
           /\ UNCHANGED pushed
    /\ gyroListeners' # gyroListeners =>
           \/ accListeners' = << >> /\ accListeners # << >>
           \/ /\ gyroListeners' = << >>
              /\ UNCHANGED accListeners
              /\ pushed' =
                     pushed \o
                     [i \in 1 .. Len(gyroListeners) |->
                          ReadingQuaternion(gyroListeners[i].magData,
                                            gyroListeners[i].accData,
                                            Poses[pose].gyro,
                                            UpdateIntervalOf(variant))]
    /\ pushed' # pushed =>
           /\ gyroListeners' = << >>
           /\ Len(pushed') = Len(pushed) + Len(gyroListeners)

\* C36: in the quaternion snapshots calculateDeviceOrientation is called
\* only by a gyroscope listener, with the magnetometer sample that started
\* the join, the first accelerometer sample after it and the first gyroscope
\* sample after that; each magnetometer sample leads to at most one call per
\* magnetometer listener, and the nested accelerometer and gyroscope
\* listeners fire once and are removed.
C36_NestedJoin ==
    [][(variant \in {"quat", "quat200"}) => NestedJoinStep]_vars

\* two magnetometer samples have each led to one calculateDeviceOrientation
\* and no nested listener is left
C36_Witness ==
    /\ variant = "quat"
    /\ Len(magListeners) = 1
    /\ Len(pushed) = 2
    /\ accListeners = << >>
    /\ gyroListeners = << >>

=============================================================================
